---- MODULE Spec2Model ----
(***************************************************************************)
(* The spell-check worker of nova-front/textarea (worker.ts), its inlined  *)
(* LRU cache, and the diff-region calculator of utils/index.ts.            *)
(*                                                                         *)
(* A text is a sequence of one-character strings.  Positions are the       *)
(* 0-based offsets of the source (a token's start is inclusive, its end    *)
(* exclusive), so text[start:end] is SubSeq(text, start + 1, end).         *)
(***************************************************************************)
EXTENDS Integers, Sequences, FiniteSets, TLC

(***************************************************************************)
(* Characters and the regular expression /\b[a-zA-Z']{2,}\b/g              *)
(***************************************************************************)
LowerSeq == <<"a","b","c","d","e","f","g","h","i","j","k","l","m",
              "n","o","p","q","r","s","t","u","v","w","x","y","z">>

UpperSeq == <<"A","B","C","D","E","F","G","H","I","J","K","L","M",
              "N","O","P","Q","R","S","T","U","V","W","X","Y","Z">>

Digits == {"0","1","2","3","4","5","6","7","8","9"}

Range(s) == {s[i] : i \in DOMAIN s}

Letters == Range(LowerSeq) \cup Range(UpperSeq)

\* \w of the regular expression: what \b looks at.
IsWordChar(c) == c \in Letters \cup Digits \cup {"_"}

\* The character class [a-zA-Z'].
IsClassChar(c) == c \in Letters \cup {"'"}

\* \s of the regular expression.
IsSpace(c) == c \in {" ", "\t", "\n", "\r"}

\* String.prototype.toLowerCase on one character.
ToLowerChar(c) ==
    IF \E i \in DOMAIN UpperSeq : UpperSeq[i] = c
    THEN LowerSeq[CHOOSE i \in DOMAIN UpperSeq : UpperSeq[i] = c]
    ELSE c

toLowerCase(s) == [i \in DOMAIN s |-> ToLowerChar(s[i])]

\* An index argument of String.prototype.slice, brought into 0..length: a
\* negative one counts from the end.
SliceIndex(len, i) ==
    IF i < 0 THEN (IF len + i < 0 THEN 0 ELSE len + i)
    ELSE IF i > len THEN len ELSE i

\* text.slice(from, to).
Slice(text, from, to) ==
    LET f == SliceIndex(Len(text), from)
        t == SliceIndex(Len(text), to)
    IN  IF f >= t THEN <<>> ELSE SubSeq(text, f + 1, t)

\* \b at offset p: exactly one of the characters around p is a \w character.
Boundary(text, p) ==
    LET left  == p >= 1 /\ p <= Len(text) /\ IsWordChar(text[p])
        right == p >= 0 /\ p < Len(text) /\ IsWordChar(text[p + 1])
    IN  left # right

\* The offset after the longest run of class characters that starts at p.
RECURSIVE RunEnd(_, _)
RunEnd(text, p) ==
    IF p < Len(text) /\ IsClassChar(text[p + 1]) THEN RunEnd(text, p + 1) ELSE p

\* The ends e at which the pattern matches from p: \b at p, at least two class
\* characters, \b at e.  The greedy quantifier takes the largest of them.
MatchEnds(text, p) ==
    IF Boundary(text, p)
    THEN {e \in (p + 2)..RunEnd(text, p) : Boundary(text, e)}
    ELSE {}

Max(S) == CHOOSE x \in S : \A y \in S : y <= x

Min(S) == CHOOSE x \in S : \A y \in S : x <= y

NoMatch == [word |-> <<>>, start |-> -1, end |-> -1]

\* match === null
IsNull(m) == m.start < 0

\* wordRegex.exec(text) with wordRegex.lastIndex = lastIndex: the leftmost match
\* at or after lastIndex, or NoMatch (null).
RegexExec(text, lastIndex) ==
    LET starts == {p \in lastIndex..Len(text) : MatchEnds(text, p) # {}}
    IN  IF starts = {} THEN NoMatch
        ELSE LET p == Min(starts)
                 e == Max(MatchEnds(text, p))
             IN  [word |-> Slice(text, p, e), start |-> p, end |-> e]

\* All matches of the pattern in text, left to right (the exec loop).
RECURSIVE MatchesFrom(_, _)
MatchesFrom(text, lastIndex) ==
    LET m == RegexExec(text, lastIndex)
    IN  IF IsNull(m) THEN <<>> ELSE <<m>> \o MatchesFrom(text, m.end)

Matches(text) == MatchesFrom(text, 0)

(***************************************************************************)
(* LRUCache (the copy inlined in the worker).  A cache is the list of its  *)
(* nodes between the two sentinels, head.next first: index 1 is the most   *)
(* recently used node, the last index is tail.prev.                        *)
(***************************************************************************)
LRUHas(cache, key) == \E i \in DOMAIN cache : cache[i].key = key

LRUIndex(cache, key) == CHOOSE i \in DOMAIN cache : cache[i].key = key

\* The value get(key) returns for a key the cache has.
LRUValue(cache, key) == cache[LRUIndex(cache, key)].value

RemoveAt(s, i) == SubSeq(s, 1, i - 1) \o SubSeq(s, i + 1, Len(s))

\* moveToHead of the node of key: removeNode, then addToHead.
LRUMoveToHead(cache, key) ==
    LET i == LRUIndex(cache, key)
    IN  <<cache[i]>> \o RemoveAt(cache, i)

\* The cache after get(key): a hit promotes the node, a miss changes nothing.
LRUGet(cache, key) ==
    IF LRUHas(cache, key) THEN LRUMoveToHead(cache, key) ELSE cache

\* The cache after set(key, value) with the given capacity.
LRUSet(cache, key, value, capacity) ==
    IF LRUHas(cache, key)
    THEN LRUMoveToHead([cache EXCEPT ![LRUIndex(cache, key)].value = value], key)
    ELSE LET added == <<[key |-> key, value |-> value]>> \o cache
         IN  IF Len(added) > capacity
             THEN SubSeq(added, 1, Len(added) - 1)
             ELSE added

LRUKeys(cache) == {cache[i].key : i \in DOMAIN cache}

\* A clear() that leaves the nodes in place.
LRUClearKeeps(cache) == cache

\* The cache after clear().
LRUClear(cache) == <<>>

(***************************************************************************)
(* utils/index.ts: the diff-region calculator.                             *)
(***************************************************************************)
\* The first loop of calculateTextChanges: the length of the common prefix.
RECURSIVE CommonPrefix(_, _, _)
CommonPrefix(oldText, newText, start) ==
    IF /\ start < Len(oldText)
       /\ start < Len(newText)
       /\ oldText[start + 1] = newText[start + 1]
    THEN CommonPrefix(oldText, newText, start + 1)
    ELSE start

\* The second loop: <<oldEnd, newEnd>> after trimming the common suffix.
RECURSIVE TrimSuffix(_, _, _, _, _)
TrimSuffix(oldText, newText, start, oldEnd, newEnd) ==
    IF /\ oldEnd > start
       /\ newEnd > start
       /\ oldText[oldEnd] = newText[newEnd]
    THEN TrimSuffix(oldText, newText, start, oldEnd - 1, newEnd - 1)
    ELSE <<oldEnd, newEnd>>

\* calculateTextChanges that reports a change only where both texts have
\* characters between the common prefix and the common suffix.
calculateTextChangesOfBoth(oldText, newText) ==
    LET start  == CommonPrefix(oldText, newText, 0)
        ends   == TrimSuffix(oldText, newText, start, Len(oldText), Len(newText))
        oldEnd == ends[1]
        newEnd == ends[2]
    IN  IF start < oldEnd /\ start < newEnd
        THEN <<[type    |-> "replace",
                start   |-> start,
                end     |-> newEnd,
                text    |-> Slice(newText, start, newEnd),
                oldText |-> Slice(oldText, start, oldEnd)]>>
        ELSE <<>>

calculateTextChanges(oldText, newText) ==
    LET start  == CommonPrefix(oldText, newText, 0)
        ends   == TrimSuffix(oldText, newText, start, Len(oldText), Len(newText))
        oldEnd == ends[1]
        newEnd == ends[2]
    IN  IF start < oldEnd \/ start < newEnd
        THEN <<[type    |-> "replace",
                start   |-> start,
                end     |-> newEnd,
                text    |-> Slice(newText, start, newEnd),
                oldText |-> Slice(oldText, start, oldEnd)]>>
        ELSE <<>>

\* Array.prototype.findIndex over the word list, 0-based, -1 when none.
FindIndexEndAfter(words, start) ==
    LET hits == {i \in DOMAIN words : words[i].end > start}
    IN  IF hits = {} THEN -1 ELSE Min(hits) - 1

FindIndexStartFrom(words, end) ==
    LET hits == {i \in DOMAIN words : words[i].start >= end}
    IN  IF hits = {} THEN -1 ELSE Min(hits) - 1

\* expandRegionWithContext that returns the text of the span it was given.
expandRegionWithGivenText(text, start, end, contextWords) ==
    LET words == Matches(text)
        sIdx  == FindIndexEndAfter(words, start)
        eIdx  == FindIndexStartFrom(words, end)
        startWordIndex == IF sIdx = -1 THEN Len(words) ELSE sIdx
        endWordIndex   == IF eIdx = -1 THEN Len(words) ELSE eIdx
        expandedStartIndex ==
            IF startWordIndex - contextWords < 0 THEN 0
            ELSE startWordIndex - contextWords
        expandedEndIndex ==
            IF endWordIndex + contextWords > Len(words) THEN Len(words)
            ELSE endWordIndex + contextWords
        expandedStart ==
            IF expandedStartIndex < Len(words)
            THEN words[expandedStartIndex + 1].start ELSE start
        expandedEnd ==
            IF expandedEndIndex > 0 THEN words[expandedEndIndex].end ELSE end
    IN  [start |-> expandedStart,
         end   |-> expandedEnd,
         text  |-> Slice(text, start, end)]

expandRegionWithContext(text, start, end, contextWords) ==
    LET words == Matches(text)
        sIdx  == FindIndexEndAfter(words, start)
        eIdx  == FindIndexStartFrom(words, end)
        startWordIndex == IF sIdx = -1 THEN Len(words) ELSE sIdx
        endWordIndex   == IF eIdx = -1 THEN Len(words) ELSE eIdx
        expandedStartIndex ==
            IF startWordIndex - contextWords < 0 THEN 0
            ELSE startWordIndex - contextWords
        expandedEndIndex ==
            IF endWordIndex + contextWords > Len(words) THEN Len(words)
            ELSE endWordIndex + contextWords
        expandedStart ==
            IF expandedStartIndex < Len(words)
            THEN words[expandedStartIndex + 1].start ELSE start
        expandedEnd ==
            IF expandedEndIndex > 0 THEN words[expandedEndIndex].end ELSE end
    IN  [start |-> expandedStart,
         end   |-> expandedEnd,
         text  |-> Slice(text, expandedStart, expandedEnd)]

\* regions.sort((a, b) => a.start - b.start): a stable sort by start.
RECURSIVE SortByStart(_)
SortByStart(regions) ==
    IF regions = <<>> THEN <<>>
    ELSE LET least == Min({regions[i].start : i \in DOMAIN regions})
             i     == Min({j \in DOMAIN regions : regions[j].start = least})
         IN  <<regions[i]>> \o SortByStart(RemoveAt(regions, i))

\* The loop of mergeOverlappingRegions from index i on, merged being the list
\* built so far.
RECURSIVE MergeLoop(_, _, _)
MergeLoop(sorted, merged, i) ==
    IF i > Len(sorted) THEN merged
    ELSE LET current == sorted[i]
             last    == merged[Len(merged)]
         IN  IF current.start <= last.end
             THEN LET end == IF last.end > current.end THEN last.end ELSE current.end
                      folded ==
                          [start |-> last.start,
                           end   |-> end,
                           text  |-> Slice(last.text, 0, last.start)
                                     \o Slice(current.text, 0,
                                              current.end - last.start)]
                  IN  MergeLoop(sorted,
                                [merged EXCEPT ![Len(merged)] = folded], i + 1)
             ELSE MergeLoop(sorted, Append(merged, current), i + 1)

\* A mergeOverlappingRegions that does not sort its argument.
mergeWithoutSort(regions) ==
    IF Len(regions) <= 1 THEN regions
    ELSE MergeLoop(regions, <<regions[1]>>, 2)

mergeOverlappingRegions(regions) ==
    IF Len(regions) <= 1 THEN regions
    ELSE LET sorted == SortByStart(regions)
         IN  MergeLoop(sorted, <<sorted[1]>>, 2)

\* map of expandRegionWithContext over the changes.
ExpandChanges(newText, changes, contextWords) ==
    [i \in DOMAIN changes |->
        expandRegionWithContext(newText, changes[i].start, changes[i].end,
                                contextWords)]

\* calculateIncrementalCheckRegions without its first return.
calculateRegionsOfChanges(oldText, newText, contextWords) ==
    LET changes == calculateTextChanges(oldText, newText)
    IN  IF Len(changes) = 0 THEN <<>>
        ELSE mergeOverlappingRegions(
                 ExpandChanges(newText, changes, contextWords))

calculateIncrementalCheckRegions(oldText, newText, contextWords) ==
    IF oldText = <<>> \/ newText = <<>>
    THEN <<[start |-> 0, end |-> Len(newText), text |-> newText]>>
    ELSE LET changes == calculateTextChanges(oldText, newText)
         IN  IF Len(changes) = 0 THEN <<>>
             ELSE mergeOverlappingRegions(
                      ExpandChanges(newText, changes, contextWords))

\* The default value of the contextWords parameter.
DefaultContextWords == 2

(***************************************************************************)
(* The inputs of the model: texts, words and dictionaries the host sends.  *)
(***************************************************************************)
\* "helo wrold"
TextHeloWrold == <<"h","e","l","o"," ","w","r","o","l","d">>

\* "hel owrold": the text above with its space one character to the left
TextHelOwrold == <<"h","e","l"," ","o","w","r","o","l","d">>

\* "helo world Hello"
TextHeloWorldHello ==
    <<"h","e","l","o"," ","w","o","r","l","d"," ","H","e","l","l","o">>

\* The texts of CHECK_TEXT payloads.
Texts == {TextHeloWrold, TextHeloWorldHello}

WordHello == <<"h","e","l","l","o">>

WordWorld == <<"w","o","r","l","d">>

WordHelo == <<"h","e","l","o">>

\* The word lists of the dictionaries INIT_DICTIONARY is sent with.
Dictionaries == {{WordHello, WordWorld}}

\* The words of ADD_WORD and REMOVE_WORD payloads: "Helo".
PayloadWords == {<<"H","e","l","o">>}

\* The words of GET_SUGGESTIONS payloads: "Helo" and "".
SuggestionWords == {<<"H","e","l","o">>, <<>>}

\* What dictionary.suggest returns: nothing, or "hello", "HELO", "help",
\* "held", "hell", "halo".
NativeSuggestions ==
    {<<>>,
     <<<<"h","e","l","l","o">>, <<"H","E","L","O">>, <<"h","e","l","p">>,
       <<"h","e","l","d">>, <<"h","e","l","l">>, <<"h","a","l","o">>>>}

\* The <<previous text, current text>> pairs the host computes the regions of
\* a CHECK_INCREMENTAL from.
IncrementalPairs ==
    {<<<<>>, TextHeloWrold>>, <<TextHeloWrold, TextHelOwrold>>}

\* The number of messages the worker receives in a run.
MaxMsgs == 3

\* The number of handlers suspended at a yield at the same time.
MaxSuspended == 1

\* new LRUCache<string, boolean>(5000) and new LRUCache<...>(1000), scaled down
\* so that eviction happens within the texts above.
CheckedCapacity == 2

RegionCapacity == 2

(***************************************************************************)
(* worker.ts: the module state, and the handlers suspended at a yield.     *)
(***************************************************************************)
VARIABLES
    dictionary,         \* [loaded, accepts]: null, or the Typo instance
    customWords,        \* Set<string>
    checkedCache,       \* LRUCache<string, boolean>
    regionCache,        \* LRUCache<string, {words, results}>
    currentCheckCache,  \* Map<string, boolean>: the keys, all mapped to false
    lastFullText,       \* string
    tasks,              \* the handlers suspended at `await new Promise(...)`
    posted,             \* the messages the last step posted to the host
    received,           \* the number of messages received so far
    answered,           \* history: the latest request a message was posted for
    prev,               \* history: the CHECK_TEXT the last step completed
    handled,            \* history: the message whose handler ran in the last step
    \* index.tsx: an instance of the exported class LRUCache
    lruCapacity,        \* this.capacity
    lruSize,            \* this.size
    lruCache,           \* this.cache: Map<K, LRUNode>, key |-> node
    lruNodes,           \* the LRUNode objects created so far: head, tail, ...
    lruOps,             \* the number of method calls so far
    lruRecency,         \* history: the stored keys, the latest accessed first
    lruLast,            \* history: the last method call
    \* useSpellChecker and the message channels between it and the worker
    hostReady,          \* isReady
    hostWords,          \* CustomDictionary.words
    hostCalls,          \* the calls of getSuggestions so far, in order
    inbox,              \* the messages posted to the worker and not yet handled
    outbox,             \* the messages posted to the host and not yet dispatched
    hostReturn,         \* history: the last call of a CustomDictionary method
    \* utils/index.ts: the exported functions
    applied,            \* history: the last call of a function and its result
    \* the mounting of useSpellChecker
    onmessage,          \* the handler assigned to worker.onmessage
    fetching            \* loadDictionary awaits the dictionary files

\* The state of the LRUCache instance.
cacheVars == <<lruCapacity, lruSize, lruCache, lruNodes, lruOps, lruRecency,
               lruLast>>

\* The state of the worker.
workerVars == <<dictionary, customWords, checkedCache, regionCache,
                currentCheckCache, lastFullText, tasks, posted, received,
                answered, prev, handled>>

\* The state of the host and of the channels.
hostVars == <<hostReady, hostWords, hostCalls, inbox, outbox, hostReturn>>

\* The calls of the functions of utils/index.ts.
utilVars == <<applied>>

\* The mounting of the hook and of the component that uses it.
mountVars == <<onmessage, fetching>>

vars == <<workerVars, cacheVars, hostVars, utilVars, mountVars>>

NoDictionary == [loaded |-> FALSE, accepts |-> {}]

NoPrev == [id |-> 0, text |-> <<>>, results |-> <<>>]

\* The message id of the given type with its payload word, and the text its
\* handler checks: payload.fullText, or the lastFullText of its arrival;
\* resumed: the step ran its handler on from a yield; last: lastFullText as
\* the step found it.
Message(id, type, word, text, resumed) ==
    [id |-> id, type |-> type, word |-> word, text |-> text,
     resumed |-> resumed, last |-> lastFullText]

NoMessage ==
    [id |-> 0, type |-> "NONE", word |-> <<>>, text |-> <<>>,
     resumed |-> FALSE, last |-> <<>>]

\* IsValid with customWords as a deny-list: a custom word is invalid.
IsValidDenies(dict, cw, lowerWord) ==
    lowerWord \notin cw /\ (IF dict.loaded THEN lowerWord \in dict.accepts ELSE TRUE)

\* IsValid with `?? false`: no dictionary, no valid word.
IsValidFailClosed(dict, cw, lowerWord) ==
    lowerWord \in cw \/ (IF dict.loaded THEN lowerWord \in dict.accepts ELSE FALSE)

\* customWords.has(lowerWord) || (dictionary?.check(lowerWord) ?? true)
IsValid(dict, cw, lowerWord) ==
    lowerWord \in cw \/ (IF dict.loaded THEN lowerWord \in dict.accepts ELSE TRUE)

\* Whether evaluating IsValid calls dictionary.check (|| short-circuits).
CallsDictionary(dict, cw, lowerWord) == lowerWord \notin cw /\ dict.loaded

\* WordVerdict without checkedCache.set(lowerWord, isValid).
WordVerdictNoStore(st, dict, cw, lowerWord) ==
    IF LRUHas(st.cc, lowerWord)
    THEN [st    |-> [st EXCEPT !.cc = LRUGet(st.cc, lowerWord)],
          valid |-> LRUValue(st.cc, lowerWord)]
    ELSE [st    |-> [st EXCEPT
                        !.calls = @ + (IF CallsDictionary(dict, cw, lowerWord)
                                       THEN 1 ELSE 0)],
          valid |-> IsValid(dict, cw, lowerWord)]

\* Lines 246-259 / 323-343: the verdict on one word, from the word cache or
\* computed and stored.  st carries the caches through a run.
WordVerdict(st, dict, cw, lowerWord) ==
    IF LRUHas(st.cc, lowerWord)
    THEN [st    |-> [st EXCEPT !.cc = LRUGet(st.cc, lowerWord)],
          valid |-> LRUValue(st.cc, lowerWord)]
    ELSE LET isValid == IsValid(dict, cw, lowerWord)
         IN  [st    |-> [st EXCEPT
                            !.cc = LRUSet(st.cc, lowerWord, isValid, CheckedCapacity),
                            !.calls = @ + (IF CallsDictionary(dict, cw, lowerWord)
                                           THEN 1 ELSE 0)],
              valid |-> isValid]

\* TextWord looking the word up as written, without toLowerCase.
TextWordNoLower(st, dict, cw, m) ==
    LET v == WordVerdict(st, dict, cw, m.word)
    IN  IF v.valid
        THEN [v.st EXCEPT !.lastIndex = m.end]
        ELSE [v.st EXCEPT
                 !.lastIndex = m.end,
                 !.results = Append(@, [word |-> m.word, start |-> m.start,
                                        end |-> m.end]),
                 !.ccc = @ \cup {m.word}]

\* One iteration of the loop of processText on the match m.
TextWord(st, dict, cw, m) ==
    LET lowerWord == toLowerCase(m.word)
        v == WordVerdict(st, dict, cw, lowerWord)
    IN  IF v.valid
        THEN [v.st EXCEPT !.lastIndex = m.end]
        ELSE [v.st EXCEPT
                 !.lastIndex = m.end,
                 !.results = Append(@, [word |-> m.word, start |-> m.start,
                                        end |-> m.end]),
                 !.ccc = @ \cup {lowerWord}]

\* processText from st.lastIndex until it returns (done) or, when y > 0, until
\* it yields after the y-th word of this run.
RECURSIVE processText(_, _, _, _, _)
processText(st, fullText, dict, cw, y) ==
    LET m == RegexExec(fullText, st.lastIndex)
    IN  IF IsNull(m) THEN [st EXCEPT !.done = TRUE]
        ELSE LET st1 == TextWord(st, dict, cw, m)
             IN  IF y = 1 THEN st1
                 ELSE processText(st1, fullText, dict, cw,
                                  IF y = 0 THEN 0 ELSE y - 1)

\* cached.words.join('')
RECURSIVE JoinWords(_)
JoinWords(words) ==
    IF words = <<>> THEN <<>> ELSE Head(words) \o JoinWords(Tail(words))

\* regionText.replace(/\s+/g, '')
RECURSIVE StripSpaces(_)
StripSpaces(text) ==
    IF text = <<>> THEN <<>>
    ELSE IF IsSpace(Head(text)) THEN StripSpaces(Tail(text))
    ELSE <<Head(text)>> \o StripSpaces(Tail(text))

\* results.map(r => ({...r, start: r.start + offset, end: r.end + offset}))
Shifted(results, offset) ==
    [i \in DOMAIN results |->
        [results[i] EXCEPT !.start = @ + offset, !.end = @ + offset]]

RegionKey(region) == <<region.start, region.end>>

\* What tokenizing and checking regionText afresh reports, region-relative.
RECURSIVE FreshFrom(_, _, _, _)
FreshFrom(regionText, dict, cw, lastIndex) ==
    LET m == RegexExec(regionText, lastIndex)
    IN  IF IsNull(m) THEN <<>>
        ELSE (IF IsValid(dict, cw, toLowerCase(m.word)) THEN <<>>
              ELSE <<[word |-> m.word, start |-> m.start, end |-> m.end,
                      isCorrect |-> FALSE]>>)
             \o FreshFrom(regionText, dict, cw, m.end)

\* Lines 297-308: whether the region is served from the region cache.
RegionCacheHit(rc, region) ==
    /\ LRUHas(rc, RegionKey(region))
    /\ JoinWords(LRUValue(rc, RegionKey(region)).words) = StripSpaces(region.text)

\* One iteration of the word loop of processIncrementalText on the match m of
\* the text of region.
RegionWord(st, dict, cw, region, m) ==
    LET lowerWord == toLowerCase(m.word)
        v == WordVerdict(st, dict, cw, lowerWord)
        result == [word |-> m.word, start |-> m.start, end |-> m.end,
                   isCorrect |-> FALSE]
        st1 == [v.st EXCEPT !.lastIndex = m.end,
                            !.regionWords = Append(@, m.word)]
    IN  IF v.valid THEN st1
        ELSE [st1 EXCEPT
                 !.regionResults = Append(@, result),
                 !.results = Append(@, [result EXCEPT
                                           !.start = @ + region.start,
                                           !.end = @ + region.start]),
                 !.ccc = @ \cup {lowerWord}]

\* processIncrementalText from region st.ri (inside its word loop when
\* st.inRegion) until it returns (done) or, when y > 0, until it yields after
\* the y-th word of this run.
RECURSIVE processIncrementalText(_, _, _, _, _)
processIncrementalText(st, regions, dict, cw, y) ==
    IF st.ri > Len(regions) THEN [st EXCEPT !.done = TRUE]
    ELSE
    LET region == regions[st.ri]
        key    == RegionKey(region)
    IN  IF ~st.inRegion
        THEN IF RegionCacheHit(st.rc, region)
             THEN LET cached == LRUValue(st.rc, key)
                  IN  processIncrementalText(
                          [st EXCEPT
                              !.rc = LRUGet(st.rc, key),
                              !.results = @ \o Shifted(cached.results, region.start),
                              !.staleHit = @ \/ cached.results #
                                  FreshFrom(region.text, dict, cw, 0),
                              !.ri = @ + 1],
                          regions, dict, cw, y)
             ELSE processIncrementalText(
                      [st EXCEPT
                          !.rc = LRUGet(st.rc, key),
                          !.inRegion = TRUE,
                          !.lastIndex = 0,
                          !.regionResults = <<>>,
                          !.regionWords = <<>>,
                          !.regionCw = cw],
                      regions, dict, cw, y)
        ELSE LET m == RegexExec(region.text, st.lastIndex)
             IN  IF IsNull(m)
                 THEN processIncrementalText(
                          [st EXCEPT
                              !.rc = LRUSet(st.rc, key,
                                            [words   |-> st.regionWords,
                                             results |-> st.regionResults,
                                             cw      |-> st.regionCw],
                                            RegionCapacity),
                              !.inRegion = FALSE,
                              !.ri = @ + 1],
                          regions, dict, cw, y)
                 ELSE LET st1 == RegionWord(st, dict, cw, region, m)
                      IN  IF y = 1 THEN st1
                          ELSE processIncrementalText(
                                   st1, regions, dict, cw,
                                   IF y = 0 THEN 0 ELSE y - 1)

\* The number of words of the texts of the regions.
RECURSIVE WordCount(_)
WordCount(regions) ==
    IF regions = <<>> THEN 0
    ELSE Len(Matches(Head(regions).text)) + WordCount(Tail(regions))

(***************************************************************************)
(* worker.ts: getSuggestions, getSimpleSuggestions, calculateEditDistance. *)
(***************************************************************************)
\* getSuggestions(word, maxSuggestions = 5)
DefaultMaxSuggestions == 5

commonWords ==
    <<<<"t","h","e">>, <<"b","e">>, <<"t","o">>, <<"o","f">>, <<"a","n","d">>,
      <<"a">>, <<"i","n">>, <<"t","h","a","t">>, <<"h","a","v","e">>, <<"i">>,
      <<"i","t">>, <<"f","o","r">>, <<"n","o","t">>, <<"o","n">>,
      <<"w","i","t","h">>, <<"h","e">>, <<"a","s">>, <<"y","o","u">>,
      <<"d","o">>, <<"a","t">>, <<"t","h","i","s">>, <<"b","u","t">>,
      <<"h","i","s">>, <<"b","y">>, <<"f","r","o","m">>, <<"t","h","e","y">>,
      <<"w","e">>, <<"s","a","y">>, <<"h","e","r">>, <<"s","h","e">>,
      <<"o","r">>, <<"a","n">>, <<"w","i","l","l">>, <<"m","y">>,
      <<"o","n","e">>, <<"a","l","l">>, <<"w","o","u","l","d">>,
      <<"t","h","e","r","e">>, <<"t","h","e","i","r">>, <<"w","h","a","t">>,
      <<"s","o">>, <<"u","p">>, <<"o","u","t">>, <<"i","f">>,
      <<"a","b","o","u","t">>, <<"w","h","o">>, <<"g","e","t">>,
      <<"w","h","i","c","h">>, <<"g","o">>, <<"m","e">>, <<"w","h","e","n">>,
      <<"m","a","k","e">>, <<"c","a","n">>, <<"l","i","k","e">>,
      <<"t","i","m","e">>, <<"n","o">>, <<"j","u","s","t">>, <<"h","i","m">>,
      <<"k","n","o","w">>, <<"t","a","k","e">>, <<"p","e","o","p","l","e">>,
      <<"i","n","t","o">>, <<"y","e","a","r">>, <<"y","o","u","r">>,
      <<"g","o","o","d">>, <<"s","o","m","e">>, <<"c","o","u","l","d">>,
      <<"t","h","e","m">>, <<"s","e","e">>, <<"o","t","h","e","r">>,
      <<"t","h","a","n">>, <<"t","h","e","n">>, <<"n","o","w">>,
      <<"l","o","o","k">>, <<"o","n","l","y">>, <<"c","o","m","e">>,
      <<"i","t","s">>, <<"o","v","e","r">>, <<"t","h","i","n","k">>,
      <<"a","l","s","o">>, <<"b","a","c","k">>, <<"a","f","t","e","r">>,
      <<"u","s","e">>, <<"t","w","o">>, <<"h","o","w">>, <<"o","u","r">>,
      <<"w","o","r","k">>, <<"f","i","r","s","t">>, <<"w","e","l","l">>,
      <<"w","a","y">>, <<"e","v","e","n">>, <<"n","e","w">>,
      <<"w","a","n","t">>, <<"b","e","c","a","u","s","e">>, <<"a","n","y">>,
      <<"t","h","e","s","e">>, <<"g","i","v","e">>, <<"d","a","y">>,
      <<"m","o","s","t">>, <<"u","s">>, <<"i","s">>, <<"w","a","t","e","r">>,
      <<"l","o","n","g">>, <<"v","e","r","y">>, <<"f","i","n","d">>,
      <<"s","t","i","l","l">>, <<"l","i","f","e">>,
      <<"b","e","c","o","m","e">>, <<"h","e","r","e">>, <<"o","l","d">>,
      <<"s","e","e">>, <<"h","i","m">>, <<"t","w","o">>, <<"m","o","r","e">>,
      <<"g","o">>, <<"d","o">>, <<"n","o">>, <<"w","a","y">>,
      <<"c","o","u","l","d">>, <<"m","y">>, <<"t","h","a","n">>,
      <<"f","i","r","s","t">>, <<"b","e","e","n">>, <<"c","a","l","l">>,
      <<"w","h","o">>, <<"i","t","s">>, <<"n","o","w">>, <<"f","i","n","d">>,
      <<"l","o","n","g">>, <<"d","o","w","n">>, <<"d","a","y">>,
      <<"d","i","d">>, <<"g","e","t">>, <<"c","o","m","e">>,
      <<"m","a","d","e">>, <<"m","a","y">>, <<"p","a","r","t">>>>

\* The row matrix[i] from the row matrix[i - 1], for the character c of str1:
\* row holds the columns filled so far.
RECURSIVE FillRow(_, _, _, _)
FillRow(prevRow, row, c, str2) ==
    IF Len(row) > Len(str2) THEN row
    ELSE LET j == Len(row)
             cell == IF c = str2[j] THEN prevRow[j]
                     ELSE Min({prevRow[j + 1] + 1, row[j] + 1, prevRow[j] + 1})
         IN  FillRow(prevRow, Append(row, cell), c, str2)

RECURSIVE FillMatrix(_, _, _, _)
FillMatrix(str1, str2, i, prevRow) ==
    IF i > Len(str1) THEN prevRow[Len(str2) + 1]
    ELSE FillMatrix(str1, str2, i + 1, FillRow(prevRow, <<i>>, str1[i], str2))

calculateEditDistance(str1, str2) ==
    FillMatrix(str1, str2, 1, [j \in 1..(Len(str2) + 1) |-> j - 1])

Abs(n) == IF n < 0 THEN 0 - n ELSE n

\* A turn of the loop that takes every candidate of a near length.
CandidateOfNearLength(word, candidate, suggestions) ==
    IF Abs(Len(candidate) - Len(word)) <= 2
    THEN Append(suggestions, candidate)
    ELSE suggestions

\* One turn of the loop of getSimpleSuggestions.
Candidate(word, candidate, suggestions) ==
    LET near == Abs(Len(candidate) - Len(word)) <= 2
        distance == calculateEditDistance(word, candidate)
    IN  IF near /\ distance <= 2 /\ distance > 0
        THEN Append(suggestions, candidate)
        ELSE suggestions

\* `if (suggestions.length >= maxSuggestions) break`, which follows a push.
Broke(suggestions, maxSuggestions) ==
    suggestions # <<>> /\ Len(suggestions) >= maxSuggestions

\* The loop of getSimpleSuggestions over commonWords[lo..hi], entered with
\* the given suggestions and not yet broken out of.  The range is halved so
\* that the evaluation nests to the logarithm of its length.
RECURSIVE SimpleLoop(_, _, _, _, _)
SimpleLoop(word, maxSuggestions, lo, hi, suggestions) ==
    IF lo > hi THEN suggestions
    ELSE IF lo = hi THEN Candidate(word, commonWords[lo], suggestions)
    ELSE LET mid == (lo + hi) \div 2
             left == SimpleLoop(word, maxSuggestions, lo, mid, suggestions)
         IN  IF Len(left) > Len(suggestions) /\ Broke(left, maxSuggestions)
             THEN left
             ELSE SimpleLoop(word, maxSuggestions, mid + 1, hi, left)

getSimpleSuggestions(word, maxSuggestions) ==
    SimpleLoop(word, maxSuggestions, 1, Len(commonWords), <<>>)

\* suggestions.slice(0, maxSuggestions)
FirstOf(suggestions, maxSuggestions) ==
    SubSeq(suggestions, 1, Min({Len(suggestions), maxSuggestions}))

\* .filter((suggestion) => suggestion.toLowerCase() !== lowerWord)
NotTheWord(suggestions, lowerWord) ==
    SelectSeq(suggestions, LAMBDA suggestion : toLowerCase(suggestion) # lowerWord)

\* getSimpleSuggestions("helo", 5), evaluated once.
SimpleSuggestionsOfHelo ==
    getSimpleSuggestions(<<"h","e","l","o">>, DefaultMaxSuggestions)

\* The call of getSimpleSuggestions in getSuggestions.
SimpleSuggestions(lowerWord, maxSuggestions) ==
    IF lowerWord = <<"h","e","l","o">> /\ maxSuggestions = DefaultMaxSuggestions
    THEN SimpleSuggestionsOfHelo
    ELSE getSimpleSuggestions(lowerWord, maxSuggestions)

\* A getSuggestions that does not look the word up in customWords.
getSuggestionsOfCustom(dict, cw, word, native, maxSuggestions) ==
    IF ~dict.loaded \/ word = <<>> THEN <<>>
    ELSE IF native = <<>>
         THEN SimpleSuggestions(toLowerCase(word), maxSuggestions)
    ELSE NotTheWord(FirstOf(native, maxSuggestions), toLowerCase(word))

\* native: what dictionary.suggest(word) returns.
getSuggestions(dict, cw, word, native, maxSuggestions) ==
    IF ~dict.loaded \/ word = <<>> THEN <<>>
    ELSE IF toLowerCase(word) \in cw THEN <<>>
    ELSE IF native = <<>>
         THEN SimpleSuggestions(toLowerCase(word), maxSuggestions)
    ELSE NotTheWord(FirstOf(native, maxSuggestions), toLowerCase(word))

(***************************************************************************)
(* index.tsx: class LRUCache<K, V>.  The LRUNode objects are the elements  *)
(* of lruNodes, and a reference to one is its index; an object no          *)
(* reference leads to any more stays in lruNodes.                          *)
(***************************************************************************)
\* null, as a reference
NullRef == 0

\* this.head and this.tail, the first two objects the constructor creates
HeadNode == 1

TailNode == 2

\* null, as a key and as a value
Null == "null"

\* The keys and the values the methods are called with.
CacheKeys == {Null, "a", "b"}

CacheValues == {"x", "y"}

\* new LRUCache(capacity)
Capacities == {1, 2}

\* The number of method calls on the instance.
MaxCacheOps == 5

LRUNode(key, value, prev_, next_) ==
    [key |-> key, value |-> value, prev |-> prev_, next |-> next_]

\* addToHead(node)
addToHead(ns, node) ==
    LET a == [ns EXCEPT ![node].prev = HeadNode]
        b == [a EXCEPT ![node].next = a[HeadNode].next]
        c == IF b[HeadNode].next # NullRef
             THEN [b EXCEPT ![b[HeadNode].next].prev = node]
             ELSE b
    IN  [c EXCEPT ![HeadNode].next = node]

\* removeNode(node)
removeNode(ns, node) ==
    LET a == IF ns[node].prev # NullRef
             THEN [ns EXCEPT ![ns[node].prev].next = ns[node].next]
             ELSE ns
    IN  IF a[node].next # NullRef
        THEN [a EXCEPT ![a[node].next].prev = a[node].prev]
        ELSE a

\* moveToHead(node)
moveToHead(ns, node) == addToHead(removeNode(ns, node), node)

\* removeTail(): the objects after the call, and the node it returns
removeTail(ns) ==
    LET lastNode == ns[TailNode].prev
    IN  IF lastNode # NullRef /\ lastNode # HeadNode
        THEN [nodes |-> removeNode(ns, lastNode), node |-> lastNode]
        ELSE [nodes |-> ns, node |-> NullRef]

\* Map.prototype.set and Map.prototype.delete
MapSet(map, key, node) ==
    [k \in (DOMAIN map) \cup {key} |-> IF k = key THEN node ELSE map[k]]

MapDelete(map, key) == [k \in (DOMAIN map) \ {key} |-> map[k]]

\* The keys of recency without key, and those of them that are in keys.
Without(recency, key) == SelectSeq(recency, LAMBDA k : k # key)

Within(recency, keys) == SelectSeq(recency, LAMBDA k : k \in keys)

\* A call of the given method; keys, size and recency are those it found.
Call(op, key, result) ==
    [op |-> op, key |-> key, result |-> result, keys |-> DOMAIN lruCache,
     size |-> lruSize, recency |-> lruRecency]

NoCall ==
    [op |-> "none", key |-> Null, result |-> Null, keys |-> {}, size |-> 0,
     recency |-> <<>>]

\* No method of CustomDictionary has been called.  A call: the method and its
\* argument, this.words and the messages posted as the call found them, what
\* it returned ({imported, failed} or {added, failed}, or the boolean), and
\* whether it threw.
NoReturn ==
    [op |-> "none", input |-> "", words |-> {}, inbox |-> <<>>, count |-> 0,
     failed |-> <<>>, threw |-> FALSE]

\* No function of utils/index.ts has been called.
NoApplication == applied = [fn |-> "none"]

\* No useSpellChecker is mounted.
NoHost ==
    /\ hostReady = FALSE
    /\ hostWords = {}
    /\ hostCalls = <<>>
    /\ inbox = <<>>
    /\ outbox = <<>>
    /\ hostReturn = NoReturn
    /\ onmessage = "none"
    /\ fetching = FALSE

\* No LRUCache has been constructed.
NoInstance ==
    /\ lruCapacity = 0
    /\ lruSize = 0
    /\ lruCache = <<>>
    /\ lruNodes = <<>>
    /\ lruOps = 0
    /\ lruRecency = <<>>
    /\ lruLast = NoCall

\* constructor(capacity)
Constructed(capacity) ==
    /\ lruCapacity = capacity
    /\ lruSize = 0
    /\ lruCache = <<>>
    /\ lruNodes = <<LRUNode(Null, Null, NullRef, TailNode),
                    LRUNode(Null, Null, HeadNode, NullRef)>>
    /\ lruOps = 0
    /\ lruRecency = <<>>
    /\ lruLast = NoCall

\* get(key)
CacheGet(key) ==
    /\ lruOps < MaxCacheOps
    /\ lruOps' = lruOps + 1
    /\ IF key \in DOMAIN lruCache
       THEN /\ lruNodes' = moveToHead(lruNodes, lruCache[key])
            /\ lruRecency' = <<key>> \o Without(lruRecency, key)
            /\ lruLast' = Call("get", key,
                               IF lruNodes[lruCache[key]].value = Null
                               THEN "undefined"
                               ELSE lruNodes[lruCache[key]].value)
       ELSE /\ lruLast' = Call("get", key, "undefined")
            /\ UNCHANGED <<lruNodes, lruRecency>>
    /\ UNCHANGED <<lruCapacity, lruSize, lruCache, workerVars, hostVars, utilVars, mountVars>>

\* set(key, value)
CacheSet(key, value) ==
    /\ lruOps < MaxCacheOps
    /\ lruOps' = lruOps + 1
    /\ lruLast' = Call("set", key, "undefined")
    /\ IF key \in DOMAIN lruCache
       THEN /\ lruNodes' = moveToHead([lruNodes EXCEPT ![lruCache[key]].value = value],
                                     lruCache[key])
            /\ UNCHANGED <<lruCache, lruSize>>
       ELSE LET newNode == Len(lruNodes) + 1
                added == addToHead(Append(lruNodes,
                                          LRUNode(key, value, NullRef, NullRef)),
                                   newNode)
                tail == removeTail(added)
            IN  IF lruSize + 1 > lruCapacity
                THEN /\ lruNodes' = tail.nodes
                     /\ IF tail.node # NullRef /\ added[tail.node].key # Null
                        THEN /\ lruCache' = MapDelete(MapSet(lruCache, key, newNode),
                                                     added[tail.node].key)
                             /\ lruSize' = lruSize
                        ELSE /\ lruCache' = MapSet(lruCache, key, newNode)
                             /\ lruSize' = lruSize + 1
                ELSE /\ lruNodes' = added
                     /\ lruCache' = MapSet(lruCache, key, newNode)
                     /\ lruSize' = lruSize + 1
    /\ lruRecency' = Within(<<key>> \o Without(lruRecency, key), DOMAIN lruCache')
    /\ UNCHANGED <<lruCapacity, workerVars, hostVars, utilVars, mountVars>>

\* has(key)
CacheHas(key) ==
    /\ lruOps < MaxCacheOps
    /\ lruOps' = lruOps + 1
    /\ lruLast' = Call("has", key, key \in DOMAIN lruCache)
    /\ UNCHANGED <<lruCapacity, lruSize, lruCache, lruNodes, lruRecency,
                   workerVars, hostVars, utilVars, mountVars>>

\* delete(key)
CacheDelete(key) ==
    /\ lruOps < MaxCacheOps
    /\ lruOps' = lruOps + 1
    /\ lruLast' = Call("delete", key, key \in DOMAIN lruCache)
    /\ IF key \in DOMAIN lruCache
       THEN /\ lruNodes' = removeNode(lruNodes, lruCache[key])
            /\ lruCache' = MapDelete(lruCache, key)
            /\ lruSize' = lruSize - 1
            /\ lruRecency' = Without(lruRecency, key)
       ELSE UNCHANGED <<lruNodes, lruCache, lruSize, lruRecency>>
    /\ UNCHANGED <<lruCapacity, workerVars, hostVars, utilVars, mountVars>>

\* clear()
CacheClear ==
    /\ lruOps < MaxCacheOps
    /\ lruOps' = lruOps + 1
    /\ lruLast' = Call("clear", Null, "undefined")
    /\ lruCache' = <<>>
    /\ lruSize' = 0
    /\ lruNodes' = [lruNodes EXCEPT ![HeadNode].next = TailNode, ![TailNode].prev = HeadNode]
    /\ lruRecency' = <<>>
    /\ UNCHANGED <<lruCapacity, workerVars, hostVars, utilVars, mountVars>>

(***************************************************************************)
(* self.onmessage.  A step of the worker is one turn of its event loop: a  *)
(* message is dispatched and its handler runs until it returns or reaches  *)
(* `await new Promise(resolve => setTimeout(resolve, 0))`, or the timer of *)
(* a suspended handler fires and it runs on in the same way.  Whether      *)
(* Date.now() - startTime > 16 holds after a word is the choice y (the     *)
(* wall clock of Date.now() decides, and it is not monotonic).             *)
(***************************************************************************)
CheckTypes == {"CHECK_TEXT", "CHECK_INCREMENTAL"}

\* The locals of a handler that enters processText or processIncrementalText.
NewTask(id, type, fullText, regions, word, approved, repeatOf) ==
    [id |-> id, type |-> type, fullText |-> fullText, regions |-> regions,
     word |-> word,
     results |-> <<>>, lastIndex |-> 0, ri |-> 1, inRegion |-> FALSE,
     regionResults |-> <<>>, regionWords |-> <<>>,
     \* history, read by the properties only
     regionCw |-> {}, calls |-> 0, staleHit |-> FALSE,
     interleaved |-> FALSE, approved |-> approved, repeatOf |-> repeatOf]

\* The state a run of task t starts from: its locals and the given caches.
RunState(t, cc, rc, ccc) ==
    [cc |-> cc, rc |-> rc, ccc |-> ccc, done |-> FALSE,
     results |-> t.results, lastIndex |-> t.lastIndex, ri |-> t.ri,
     inRegion |-> t.inRegion, regionResults |-> t.regionResults,
     regionWords |-> t.regionWords,
     regionCw |-> t.regionCw, calls |-> t.calls, staleHit |-> t.staleHit]

\* The locals of t when its run stopped in state st.
Suspended(t, st) ==
    [t EXCEPT !.results = st.results, !.lastIndex = st.lastIndex, !.ri = st.ri,
              !.inRegion = st.inRegion, !.regionResults = st.regionResults,
              !.regionWords = st.regionWords,
              !.regionCw = st.regionCw, !.calls = st.calls,
              !.staleHit = st.staleHit]

\* The run of task t from st with yield choice y.
Run(t, st, y) ==
    IF t.type = "CHECK_INCREMENTAL"
    THEN processIncrementalText(st, t.regions, dictionary, customWords, y)
    ELSE processText(st, t.fullText, dictionary, customWords, y)

\* The yield choices of a run of t beside which the handlers in others stay
\* suspended: 0 is no yield, y > 0 a yield after the y-th word of the run.
YieldChoices(t, others) ==
    IF Cardinality(others) >= MaxSuspended THEN {0}
    ELSE IF t.type = "CHECK_INCREMENTAL" THEN 0..WordCount(t.regions)
    ELSE 0..Len(Matches(t.fullText))

CheckResult(t, st) ==
    [type |-> "CHECK_RESULT", req |-> t.id,
     invalidWords |-> st.results, currentCheckCache |-> st.ccc,
     \* history, read by the properties only
     reqType |-> t.type, fullText |-> t.fullText, regions |-> t.regions,
     cw |-> customWords, dict |-> dictionary,
     interleaved |-> t.interleaved, approved |-> t.approved,
     calls |-> st.calls, repeatOf |-> t.repeatOf, staleHit |-> st.staleHit,
     before |-> answered]

\* A DICTIONARY_UPDATED that carries the lowercased word.
DictionaryUpdatedLower(t) ==
    [type |-> "DICTIONARY_UPDATED", req |-> t.id, action |-> t.type,
     word |-> toLowerCase(t.word), before |-> answered]

DictionaryUpdated(t) ==
    [type |-> "DICTIONARY_UPDATED", req |-> t.id, action |-> t.type,
     word |-> t.word, before |-> answered]

\* What the handler of t posts once its check has returned.
Responses(t, st) ==
    IF t.type \in CheckTypes THEN <<CheckResult(t, st)>>
    ELSE <<CheckResult(t, st), DictionaryUpdated(t)>>

\* A step that cancels the handlers suspended beside it.
OthersDropped(t) == {}

\* The other suspended handlers, after a step that was not theirs.
Others(t) == {[o EXCEPT !.interleaved = TRUE] : o \in tasks \ {t}}

\* A step whose handler stores the text it checked whatever its message.
SettleStoresText(t, st, others) ==
    /\ checkedCache' = st.cc
    /\ regionCache' = st.rc
    /\ currentCheckCache' = st.ccc
    /\ IF st.done
       THEN /\ posted' = Responses(t, st)
            /\ answered' = IF t.id > answered THEN t.id ELSE answered
            /\ lastFullText' = t.fullText
            /\ tasks' = others
            /\ prev' = IF t.type = "CHECK_TEXT" /\ ~t.interleaved
                       THEN [id |-> t.id, text |-> t.fullText,
                             results |-> st.results]
                       ELSE NoPrev
       ELSE /\ tasks' = others \cup {Suspended(t, st)}
            /\ posted' = <<>>
            /\ UNCHANGED <<answered, lastFullText>>
            /\ prev' = NoPrev

\* The end of a step of the handler of t whose run stopped in st: it posts and
\* returns, or stays suspended.
Settle(t, st, others) ==
    /\ checkedCache' = st.cc
    /\ regionCache' = st.rc
    /\ currentCheckCache' = st.ccc
    /\ IF st.done
       THEN /\ posted' = Responses(t, st)
            /\ answered' = IF t.id > answered THEN t.id ELSE answered
            /\ lastFullText' = IF t.type \in CheckTypes THEN t.fullText
                               ELSE lastFullText
            /\ tasks' = others
            /\ prev' = IF t.type = "CHECK_TEXT" /\ ~t.interleaved
                       THEN [id |-> t.id, text |-> t.fullText,
                             results |-> st.results]
                       ELSE NoPrev
       ELSE /\ tasks' = others \cup {Suspended(t, st)}
            /\ posted' = <<>>
            /\ UNCHANGED <<answered, lastFullText>>
            /\ prev' = NoPrev

Init ==
    /\ dictionary = NoDictionary
    /\ customWords = {}
    /\ checkedCache = <<>>
    /\ regionCache = <<>>
    /\ currentCheckCache = {}
    /\ lastFullText = <<>>
    /\ tasks = {}
    /\ posted = <<>>
    /\ received = 0
    /\ answered = 0
    /\ prev = NoPrev
    /\ handled = NoMessage
    /\ NoInstance
    /\ NoHost
    /\ NoApplication

\* case 'INIT_DICTIONARY', on the state of the worker
OnInitDictionary(accepts) ==
    /\ received < MaxMsgs
    /\ received' = received + 1
    /\ handled' = Message(received + 1,
                          "INIT_DICTIONARY", <<>>, <<>>, FALSE)
    /\ dictionary' = [loaded |-> TRUE, accepts |-> accepts]
    /\ checkedCache' = LRUClear(checkedCache)
    /\ regionCache' = LRUClear(regionCache)
    /\ posted' = <<[type |-> "DICTIONARY_READY", req |-> received + 1,
                    before |-> answered]>>
    /\ answered' = received + 1
    /\ tasks' = Others(NoPrev)
    /\ prev' = NoPrev
    /\ UNCHANGED <<customWords, currentCheckCache, lastFullText>>

\* case 'INIT_DICTIONARY'
InitDictionary(accepts) ==
    /\ OnInitDictionary(accepts)
    /\ UNCHANGED <<cacheVars, hostVars, utilVars, mountVars>>

\* The part ADD_WORD and REMOVE_WORD share: the caches are cleared, lastFullText
\* is checked again when there is one, then DICTIONARY_UPDATED is posted.
Recheck(type, word, cw, others) ==
    LET t == NewTask(received + 1, type, lastFullText, <<>>, word, cw, NoPrev)
    IN  IF lastFullText # <<>>
        THEN \E y \in YieldChoices(t, others) :
                Settle(t, processText(RunState(t, LRUClear(checkedCache),
                                               LRUClear(regionCache), {}),
                                      lastFullText, dictionary, cw, y), others)
        ELSE /\ checkedCache' = LRUClear(checkedCache)
             /\ regionCache' = LRUClear(regionCache)
             /\ currentCheckCache' = {}
             /\ posted' = <<DictionaryUpdated(t)>>
             /\ answered' = received + 1
             /\ tasks' = others
             /\ prev' = NoPrev
             /\ UNCHANGED lastFullText

\* An ADD_WORD that stores payload.word as it was typed.
OnAddWordAsTyped(word) ==
    /\ received < MaxMsgs
    /\ received' = received + 1
    /\ handled' = Message(received + 1,
                          "ADD_WORD", word, lastFullText, FALSE)
    /\ customWords' = customWords \cup {word}
    /\ Recheck("ADD_WORD", word, customWords', Others(NoPrev))
    /\ UNCHANGED dictionary

\* case 'ADD_WORD', on the state of the worker
OnAddWord(word) ==
    /\ received < MaxMsgs
    /\ received' = received + 1
    /\ handled' = Message(received + 1,
                          "ADD_WORD", word, lastFullText, FALSE)
    /\ customWords' = customWords \cup {toLowerCase(word)}
    /\ Recheck("ADD_WORD", word, customWords', Others(NoPrev))
    /\ UNCHANGED dictionary

\* case 'ADD_WORD'
AddWord(word) ==
    /\ OnAddWord(word)
    /\ UNCHANGED <<cacheVars, hostVars, utilVars, mountVars>>

\* case 'REMOVE_WORD', on the state of the worker
OnRemoveWord(word) ==
    /\ received < MaxMsgs
    /\ received' = received + 1
    /\ handled' = Message(received + 1,
                          "REMOVE_WORD", word, lastFullText, FALSE)
    /\ customWords' = customWords \ {toLowerCase(word)}
    /\ Recheck("REMOVE_WORD", word, customWords',
               {[o EXCEPT !.approved = @ \ {toLowerCase(word)}] : o \in Others(NoPrev)})
    /\ UNCHANGED dictionary

\* case 'REMOVE_WORD'
RemoveWord(word) ==
    /\ OnRemoveWord(word)
    /\ UNCHANGED <<cacheVars, hostVars, utilVars, mountVars>>

\* A CLEAR_WORDS that rechecks lastFullText the way ADD_WORD does.
ClearWordsRechecks ==
    /\ received < MaxMsgs
    /\ received' = received + 1
    /\ handled' = Message(received + 1,
                          "CLEAR_WORDS", <<>>, <<>>, FALSE)
    /\ customWords' = {}
    /\ Recheck("CLEAR_WORDS", <<>>, {},
               {[o EXCEPT !.approved = {}] : o \in Others(NoPrev)})
    /\ UNCHANGED dictionary
    /\ UNCHANGED <<cacheVars, hostVars, utilVars, mountVars>>

\* case 'CLEAR_WORDS', on the state of the worker
OnClearWords ==
    /\ received < MaxMsgs
    /\ received' = received + 1
    /\ handled' = Message(received + 1,
                          "CLEAR_WORDS", <<>>, <<>>, FALSE)
    /\ customWords' = {}
    /\ checkedCache' = LRUClear(checkedCache)
    /\ regionCache' = LRUClear(regionCache)
    /\ tasks' = {[o EXCEPT !.approved = {}] : o \in Others(NoPrev)}
    /\ posted' = <<>>
    /\ prev' = NoPrev
    /\ UNCHANGED <<dictionary, currentCheckCache, lastFullText, answered>>

\* case 'CLEAR_WORDS'
ClearWords ==
    /\ OnClearWords
    /\ UNCHANGED <<cacheVars, hostVars, utilVars, mountVars>>

\* case 'GET_CACHE_STATS'
GetCacheStats ==
    /\ received < MaxMsgs
    /\ received' = received + 1
    /\ handled' = Message(received + 1, "GET_CACHE_STATS", <<>>, <<>>, FALSE)
    /\ posted' = <<[type |-> "CACHE_STATS", req |-> received + 1,
                    checkedCacheSize |-> "LRU Cache Active",
                    regionCacheSize |-> "LRU Cache Active",
                    customWordsCount |-> Cardinality(customWords),
                    before |-> answered]>>
    /\ answered' = received + 1
    /\ tasks' = Others(NoPrev)
    /\ prev' = NoPrev
    /\ UNCHANGED <<dictionary, customWords, checkedCache, regionCache,
                   currentCheckCache, lastFullText>>
    /\ UNCHANGED <<cacheVars, hostVars, utilVars, mountVars>>

\* case 'GET_SUGGESTIONS', on the state of the worker
OnGetSuggestions(word, native) ==
    /\ received < MaxMsgs
    /\ received' = received + 1
    /\ handled' = Message(received + 1, "GET_SUGGESTIONS", word, <<>>, FALSE)
    /\ posted' = <<[type |-> "SUGGESTIONS_RESULT", req |-> received + 1,
                    word |-> word,
                    suggestions |-> getSuggestions(dictionary, customWords, word,
                                                   native, DefaultMaxSuggestions),
                    before |-> answered]>>
    /\ answered' = received + 1
    /\ tasks' = Others(NoPrev)
    /\ prev' = NoPrev
    /\ UNCHANGED <<dictionary, customWords, checkedCache, regionCache,
                   currentCheckCache, lastFullText>>

\* case 'GET_SUGGESTIONS'
GetSuggestions(word, native) ==
    /\ OnGetSuggestions(word, native)
    /\ UNCHANGED <<cacheVars, hostVars, utilVars, mountVars>>

\* case 'CHECK_TEXT'
CheckText(fullText) ==
    /\ received < MaxMsgs
    /\ received' = received + 1
    /\ handled' = Message(received + 1,
                          "CHECK_TEXT", <<>>, fullText, FALSE)
    /\ LET t == NewTask(received + 1, "CHECK_TEXT", fullText, <<>>, <<>>,
                        customWords,
                        IF prev.id # 0 /\ prev.text = fullText THEN prev ELSE NoPrev)
       IN  \E y \in YieldChoices(t, tasks) :
              Settle(t, Run(t, RunState(t, checkedCache, regionCache,
                                        currentCheckCache), y), Others(NoPrev))
    /\ UNCHANGED <<dictionary, customWords>>
    /\ UNCHANGED <<cacheVars, hostVars, utilVars, mountVars>>

\* case 'CHECK_INCREMENTAL'; currentCheckCache.clear() opens
\* processIncrementalText.
CheckIncremental(fullText, regions) ==
    /\ received < MaxMsgs
    /\ received' = received + 1
    /\ handled' = Message(received + 1,
                          "CHECK_INCREMENTAL", <<>>, fullText, FALSE)
    /\ LET t == NewTask(received + 1, "CHECK_INCREMENTAL", fullText, regions,
                        <<>>, customWords, NoPrev)
       IN  \E y \in YieldChoices(t, tasks) :
              Settle(t, Run(t, RunState(t, checkedCache, regionCache, {}), y),
                     Others(NoPrev))
    /\ UNCHANGED <<dictionary, customWords>>
    /\ UNCHANGED <<cacheVars, hostVars, utilVars, mountVars>>

\* The host posts CHECK_INCREMENTAL for an edit of its text, with the regions
\* it computes from the previous text and the current one.
HostEdit(previousText, currentText) ==
    /\ previousText # currentText
    /\ CheckIncremental(currentText,
           calculateIncrementalCheckRegions(previousText, currentText,
                                            DefaultContextWords))

\* The timer of a suspended handler fires: it runs on after its await.
Resume(t) ==
    /\ t \in tasks
    /\ \E y \in YieldChoices(t, tasks \ {t}) :
          Settle(t, Run(t, RunState(t, checkedCache, regionCache,
                                    currentCheckCache), y), Others(t))
    /\ handled' = Message(t.id, t.type, t.word, t.fullText, TRUE)
    /\ UNCHANGED <<dictionary, customWords, received>>
    /\ UNCHANGED <<cacheVars, hostVars, utilVars, mountVars>>

Next ==
    \/ \E accepts \in Dictionaries : InitDictionary(accepts)
    \/ \E word \in PayloadWords : AddWord(word)
    \/ \E word \in PayloadWords : RemoveWord(word)
    \/ ClearWords
    \/ GetCacheStats
    \/ \E word \in SuggestionWords : \E native \in NativeSuggestions :
          GetSuggestions(word, native)
    \/ \E fullText \in Texts : CheckText(fullText)
    \/ \E pair \in IncrementalPairs : HostEdit(pair[1], pair[2])
    \/ \E t \in tasks : Resume(t)

Spec == Init /\ [][Next]_vars

\* A step of Resume: the steps of Next that receive no message.
TimerFires == tasks # {} /\ received' = received

\* The timers of setTimeout(resolve, 0) fire: weak fairness of the resumption
\* of suspended handlers, WF_vars(TimerFires), written out as
\* []<>~ENABLED <<A>>_vars \/ []<><<A>>_vars.  A suspended handler can always
\* be resumed and its resumption changes tasks, so ENABLED <<A>>_vars is
\* tasks # {}.
SpecFair ==
    /\ Spec
    /\ \/ []<>(tasks = {})
       \/ []<><<TimerFires>>_vars

\* The worker once INIT_DICTIONARY has been handled, which the host posts as
\* soon as the dictionary files are fetched; the messages are counted from there.
InitReady ==
    /\ dictionary \in {[loaded |-> TRUE, accepts |-> accepts] : accepts \in Dictionaries}
    /\ customWords = {}
    /\ checkedCache = <<>>
    /\ regionCache = <<>>
    /\ currentCheckCache = {}
    /\ lastFullText = <<>>
    /\ tasks = {}
    /\ posted = <<>>
    /\ received = 0
    /\ answered = 0
    /\ prev = NoPrev
    /\ handled = NoMessage
    /\ NoInstance
    /\ NoHost
    /\ NoApplication

SpecReady == InitReady /\ [][Next]_vars

\* The batches of regions of CHECK_INCREMENTAL payloads over "helo wrold":
\* its two words as regions, and regions with start > end or an end beyond
\* the text.
RegionHelo == [start |-> 0, end |-> 4, text |-> <<"h","e","l","o">>]

RegionWrold == [start |-> 5, end |-> 10, text |-> <<"w","r","o","l","d">>]

RegionBackwards == [start |-> 6, end |-> 2, text |-> <<"h","e","l","o">>]

RegionBeyond == [start |-> 8, end |-> 13, text |-> <<"w","r","o","l","d">>]

RegionBatches ==
    {<<RegionHelo>>, <<RegionHelo, RegionWrold>>, <<RegionBackwards, RegionWrold>>,
     <<RegionHelo, RegionBeyond>>}

\* The initialized worker that receives CHECK_INCREMENTAL with these batches.
NextRegions ==
    \/ \E fullText \in {TextHeloWrold} : \E regions \in RegionBatches :
          CheckIncremental(fullText, regions)
    \/ \E t \in tasks : Resume(t)

SpecRegions == InitReady /\ [][NextRegions]_vars

\* The words of ADD_WORD and REMOVE_WORD payloads that the dictionary accepts
\* as well: "World".
AcceptedWords == {<<"W","o","r","l","d">>}

\* The worker with custom words that the dictionary accepts.
NextAccepted ==
    \/ \E accepts \in Dictionaries : InitDictionary(accepts)
    \/ \E word \in AcceptedWords : AddWord(word)
    \/ \E word \in AcceptedWords : RemoveWord(word)
    \/ ClearWords
    \/ \E fullText \in Texts : CheckText(fullText)
    \/ \E pair \in IncrementalPairs : HostEdit(pair[1], pair[2])
    \/ \E t \in tasks : Resume(t)

SpecAccepted == InitReady /\ [][NextAccepted]_vars

\* The worker at load, beside an LRUCache that has just been constructed.
\* The custom words of the host: one word in two letter cases, and another.
StatsWords == {<<"H","e","l","o">>, <<"h","e","l","o">>, <<"W","r","o","l","d">>}

\* The worker with a dictionary, the custom words changing beside checks of
\* a text, and GET_CACHE_STATS.
NextStats ==
    \/ \E word \in StatsWords : AddWord(word)
    \/ \E word \in StatsWords : RemoveWord(word)
    \/ ClearWords
    \/ GetCacheStats
    \/ CheckText(TextHeloWrold)
    \/ \E t \in tasks : Resume(t)

\* The worker after INIT_DICTIONARY, a CHECK_TEXT of "helo wrold" and a
\* CLEAR_WORDS; the messages are counted from there.
InitStats ==
    /\ dictionary \in {[loaded |-> TRUE, accepts |-> accepts] : accepts \in Dictionaries}
    /\ customWords = {}
    /\ checkedCache = <<>>
    /\ regionCache = <<>>
    /\ currentCheckCache = {WordHelo, <<"w","r","o","l","d">>}
    /\ lastFullText = TextHeloWrold
    /\ tasks = {}
    /\ posted = <<>>
    /\ received = 0
    /\ answered = 0
    /\ prev = NoPrev
    /\ handled = NoMessage
    /\ NoInstance
    /\ NoHost
    /\ NoApplication

SpecStats == InitStats /\ [][NextStats]_vars

\* The host checks its text after each edit: the editor is empty at first,
\* and the n-th check request the host posts carries the longer text when n
\* is odd and the shorter one when n is even.
TextOfArrival(n) ==
    IF n = 0 THEN <<>>
    ELSE IF n % 2 = 1 THEN TextHeloWorldHello
    ELSE TextHeloWrold

\* The worker with a dictionary receives the check requests of the host, as
\* CHECK_TEXT or as CHECK_INCREMENTAL with the regions of the edit, and no
\* other message.
NextLatest ==
    \/ CheckText(TextOfArrival(received + 1))
    \/ HostEdit(TextOfArrival(received), TextOfArrival(received + 1))
    \/ \E t \in tasks : Resume(t)

SpecLatest == InitReady /\ [][NextLatest]_vars

InitCache ==
    /\ dictionary = NoDictionary
    /\ customWords = {}
    /\ checkedCache = <<>>
    /\ regionCache = <<>>
    /\ currentCheckCache = {}
    /\ lastFullText = <<>>
    /\ tasks = {}
    /\ posted = <<>>
    /\ received = 0
    /\ answered = 0
    /\ prev = NoPrev
    /\ handled = NoMessage
    /\ \E capacity \in Capacities : Constructed(capacity)
    /\ NoHost
    /\ NoApplication

\* The method calls on the instance.
NextCache ==
    \/ \E key \in CacheKeys : CacheGet(key)
    \/ \E key \in CacheKeys : \E value \in CacheValues : CacheSet(key, value)
    \/ \E key \in CacheKeys : CacheHas(key)
    \/ \E key \in CacheKeys : CacheDelete(key)
    \/ CacheClear

SpecCache == InitCache /\ [][NextCache]_vars

(***************************************************************************)
(* useSpellChecker: getSuggestions, beside CustomDictionary.addWord and    *)
(* the worker, which handles the messages of its inbox in their order.     *)
(* The host has been mounted and the worker has handled INIT_DICTIONARY:   *)
(* its DICTIONARY_READY is on the way.                                     *)
(***************************************************************************)
\* The number of calls of getSuggestions.
MaxCalls == 2

\* dictionary.suggest(word) of the words the host asks for.
HostNative ==
    <<<<"h","e","l","l","o">>, <<"H","E","L","O">>, <<"h","e","l","p">>,
      <<"h","e","l","d">>, <<"h","e","l","l">>, <<"h","a","l","o">>>>

\* A call of getSuggestions(word): its listener and its timer, the promise
\* (resolved, value), and as history the call whose request the resolving
\* message answered (by, 0 for none) and what the worker answered to the
\* request of this call (answered, own).
NewCall(word, ready) ==
    [word |-> word, listening |-> ready, timer |-> ready,
     resolved |-> ~ready, value |-> <<>>, by |-> 0,
     answered |-> FALSE, own |-> <<>>]

\* resolve(value): the first call settles the promise, a later one does nothing.
Resolve(call, value, by) ==
    IF call.resolved THEN call
    ELSE [call EXCEPT !.resolved = TRUE, !.value = value, !.by = by]

InitHost ==
    /\ dictionary \in {[loaded |-> TRUE, accepts |-> accepts] : accepts \in Dictionaries}
    /\ customWords = {}
    /\ checkedCache = <<>>
    /\ regionCache = <<>>
    /\ currentCheckCache = {}
    /\ lastFullText = <<>>
    /\ tasks = {}
    /\ posted = <<>>
    /\ received = 0
    /\ answered = 0
    /\ prev = NoPrev
    /\ handled = NoMessage
    /\ NoInstance
    /\ hostReady = FALSE
    /\ hostWords = {}
    /\ hostCalls = <<>>
    /\ inbox = <<>>
    /\ outbox = <<[msg |-> [type |-> "DICTIONARY_READY"], call |-> 0]>>
    /\ hostReturn = NoReturn
    /\ onmessage = "hook"
    /\ fetching = FALSE
    /\ NoApplication

\* getSuggestions(word)
HostGetSuggestions(word) ==
    /\ Len(hostCalls) < MaxCalls
    /\ hostCalls' = Append(hostCalls, NewCall(word, hostReady))
    /\ inbox' = IF hostReady
                THEN Append(inbox, [type |-> "GET_SUGGESTIONS", word |-> word,
                                    call |-> Len(hostCalls) + 1])
                ELSE inbox
    /\ UNCHANGED <<hostReady, hostWords, outbox, hostReturn, workerVars, cacheVars,
                   utilVars, mountVars>>

\* CustomDictionary.addWord(word) of a new word, below maxWords
HostAddWord(word) ==
    /\ toLowerCase(word) \notin hostWords
    /\ hostWords' = hostWords \cup {toLowerCase(word)}
    /\ inbox' = Append(inbox, [type |-> "ADD_WORD", word |-> toLowerCase(word),
                               call |-> 0])
    /\ UNCHANGED <<hostReady, hostCalls, outbox, hostReturn, workerVars, cacheVars,
                   utilVars, mountVars>>

\* The worker handles the first message of its inbox; what it posts is on the
\* way to the host.
WorkerTurn ==
    /\ inbox # <<>>
    /\ \/ /\ inbox[1].type = "GET_SUGGESTIONS"
          /\ OnGetSuggestions(inbox[1].word, HostNative)
          /\ hostCalls' = [hostCalls EXCEPT ![inbox[1].call].answered = TRUE,
                                            ![inbox[1].call].own = posted'[1].suggestions]
       \/ /\ inbox[1].type = "ADD_WORD"
          /\ OnAddWord(inbox[1].word)
          /\ UNCHANGED hostCalls
    /\ outbox' = outbox \o [i \in DOMAIN posted' |->
                              [msg |-> posted'[i], call |-> inbox[1].call]]
    /\ inbox' = Tail(inbox)
    /\ UNCHANGED <<hostReady, hostWords, hostReturn, cacheVars, utilVars, mountVars>>

\* The host dispatches the first message on its way to it: to
\* newWorker.onmessage and to the handleMessage listeners.
HostReceives ==
    /\ outbox # <<>>
    /\ hostReady' = (\/ hostReady
                     \/ /\ onmessage = "hook"
                        /\ outbox[1].msg.type = "DICTIONARY_READY")
    /\ hostCalls' =
          [c \in DOMAIN hostCalls |->
              IF /\ hostCalls[c].listening
                 /\ outbox[1].msg.type = "SUGGESTIONS_RESULT"
                 /\ outbox[1].msg.word = hostCalls[c].word
              THEN Resolve([hostCalls[c] EXCEPT !.listening = FALSE],
                           outbox[1].msg.suggestions, outbox[1].call)
              ELSE hostCalls[c]]
    /\ outbox' = Tail(outbox)
    /\ UNCHANGED <<hostWords, inbox, hostReturn, workerVars, cacheVars, utilVars, mountVars>>

\* The 1000 ms timer of call c fires; the timers fire in the order of the calls.
HostTimeout(c) ==
    /\ c \in DOMAIN hostCalls
    /\ hostCalls[c].timer
    /\ \A d \in 1..(c - 1) : ~hostCalls[d].timer
    /\ hostCalls' = [hostCalls EXCEPT
                        ![c] = Resolve([@ EXCEPT !.timer = FALSE,
                                                 !.listening = FALSE],
                                       <<>>, 0)]
    /\ UNCHANGED <<hostReady, hostWords, inbox, outbox, hostReturn, workerVars,
                   cacheVars, utilVars, mountVars>>

NextHost ==
    \/ \E word \in PayloadWords : HostGetSuggestions(word)
    \/ \E word \in PayloadWords : HostAddWord(word)
    \/ WorkerTurn
    \/ HostReceives
    \/ \E c \in 1..MaxCalls : HostTimeout(c)

SpecHost == InitHost /\ [][NextHost]_vars

(***************************************************************************)
(* The mounting of a ContentEditable: its useSpellChecker has created the   *)
(* worker, assigned newWorker.onmessage, called setWorker and started       *)
(* loadDictionary; the effect of the component that depends on [worker]     *)
(* has not run yet.                                                         *)
(***************************************************************************)
\* customDictionary.getAllWords(), as the ADD_WORD messages loadDictionary
\* posts for them.
RECURSIVE SyncMessages(_)
SyncMessages(words) ==
    IF words = {} THEN <<>>
    ELSE LET word == CHOOSE w \in words : TRUE
         IN  <<[type |-> "ADD_WORD", word |-> word, call |-> 0]>>
                 \o SyncMessages(words \ {word})

\* loadDictionary: both fetches have resolved; INIT_DICTIONARY is posted, then
\* the custom words.
FetchCompletes ==
    /\ fetching
    /\ fetching' = FALSE
    /\ inbox' = (inbox \o <<[type |-> "INIT_DICTIONARY", word |-> <<>>, call |-> 0]>>)
                   \o SyncMessages(hostWords)
    /\ UNCHANGED <<hostReady, hostWords, hostCalls, outbox, hostReturn, onmessage,
                   workerVars, cacheVars, utilVars>>

\* loadDictionary: a fetch was rejected; the catch block logs the error.
FetchFails ==
    /\ fetching
    /\ fetching' = FALSE
    /\ UNCHANGED <<hostVars, onmessage, workerVars, cacheVars, utilVars>>

\* The effect of ContentEditable for [worker]: worker.onmessage = the handler
\* of CHECK_RESULT.
EditorEffect ==
    /\ onmessage = "hook"
    /\ onmessage' = "editor"
    /\ UNCHANGED <<hostVars, fetching, workerVars, cacheVars, utilVars>>

\* The worker handles the INIT_DICTIONARY at the head of its inbox; what it
\* posts is on the way to the host.
WorkerStarts ==
    /\ inbox # <<>>
    /\ inbox[1].type = "INIT_DICTIONARY"
    /\ \E accepts \in Dictionaries : OnInitDictionary(accepts)
    /\ outbox' = outbox \o [i \in DOMAIN posted' |->
                              [msg |-> posted'[i], call |-> 0]]
    /\ inbox' = Tail(inbox)
    /\ UNCHANGED <<hostReady, hostWords, hostCalls, hostReturn, cacheVars,
                   utilVars, mountVars>>

InitMount ==
    /\ dictionary = NoDictionary
    /\ customWords = {}
    /\ checkedCache = <<>>
    /\ regionCache = <<>>
    /\ currentCheckCache = {}
    /\ lastFullText = <<>>
    /\ tasks = {}
    /\ posted = <<>>
    /\ received = 0
    /\ answered = 0
    /\ prev = NoPrev
    /\ handled = NoMessage
    /\ NoInstance
    /\ hostReady = FALSE
    /\ hostWords = {}
    /\ hostCalls = <<>>
    /\ inbox = <<>>
    /\ outbox = <<>>
    /\ hostReturn = NoReturn
    /\ onmessage = "hook"
    /\ fetching = TRUE
    /\ NoApplication

NextMount ==
    \/ FetchCompletes
    \/ FetchFails
    \/ EditorEffect
    \/ WorkerStarts
    \/ \E word \in PayloadWords : HostGetSuggestions(word)
    \/ \E word \in PayloadWords : HostAddWord(word)
    \/ WorkerTurn
    \/ HostReceives
    \/ \E c \in 1..MaxCalls : HostTimeout(c)

SpecMount == InitMount /\ [][NextMount]_vars

(***************************************************************************)
(* CustomDictionary: the word set of the host, with the worker set by      *)
(* useSpellChecker (setWorker).  A JSON value is a record with its kind.   *)
(* saveToStorage writes localStorage only and catches what setItem throws. *)
(***************************************************************************)
JUndefined == [kind |-> "undefined"]

JNull == [kind |-> "null"]

JNumber(n) == [kind |-> "number", n |-> n]

JString(chars) == [kind |-> "string", chars |-> chars]

JArray(items) == [kind |-> "array", items |-> items]

JObject(fields) == [kind |-> "object", fields |-> fields]

\* JSON.parse of the strings the model imports: a SyntaxError, or the value.
JsonDocuments ==
    { [text |-> "", threw |-> TRUE, value |-> JUndefined],
      [text |-> "{\"words\":[\"ab\"", threw |-> TRUE, value |-> JUndefined],
      [text |-> "null", threw |-> FALSE, value |-> JNull],
      [text |-> "7", threw |-> FALSE, value |-> JNumber(7)],
      [text |-> "\"words\"", threw |-> FALSE,
       value |-> JString(<<"w","o","r","d","s">>)],
      [text |-> "[\"ab\"]", threw |-> FALSE,
       value |-> JArray(<<JString(<<"a","b">>)>>)],
      [text |-> "{}", threw |-> FALSE, value |-> JObject(<<>>)],
      [text |-> "{\"word\":[\"ab\"]}", threw |-> FALSE,
       value |-> JObject([word |-> JArray(<<JString(<<"a","b">>)>>)])],
      [text |-> "{\"words\":null}", threw |-> FALSE,
       value |-> JObject([words |-> JNull])],
      [text |-> "{\"words\":\"ab\"}", threw |-> FALSE,
       value |-> JObject([words |-> JString(<<"a","b">>)])],
      [text |-> "{\"words\":{\"0\":\"ab\"}}", threw |-> FALSE,
       value |-> JObject([words |-> JObject("0" :> JString(<<"a","b">>))])],
      [text |-> "{\"words\":[]}", threw |-> FALSE,
       value |-> JObject([words |-> JArray(<<>>)])],
      [text |-> "{\"words\":[\"Ab\",\" cd \",\"x\",7,\"ab\"]}", threw |-> FALSE,
       value |-> JObject([words |-> JArray(<<JString(<<"A","b">>),
                                             JString(<<" ","c","d"," ">>),
                                             JString(<<"x">>),
                                             JNumber(7),
                                             JString(<<"a","b">>)>>)])],
      [text |-> "{\"words\":[\"ef\",\"cd\"]}", threw |-> FALSE,
       value |-> JObject([words |-> JArray(<<JString(<<"e","f">>),
                                             JString(<<"c","d">>)>>)])] }

JsonStrings == {d.text : d \in JsonDocuments}

JSONParse(jsonString) == CHOOSE d \in JsonDocuments : d.text = jsonString

\* The words the host adds and removes one by one, and the stored words a
\* CustomDictionary is constructed from (loadFromStorage).
DictionaryWords == {<<"a","b">>, <<"A","b">>, <<"c","d">>, <<"x">>}

StoredWords == {{}, {<<"a","b">>}}

\* options.maxWords, scaled down so that the capacity is reached.
MaxWords == 3

\* The number of messages posted to the worker.
MaxPosted == 3

\* String.prototype.trim
RECURSIVE trim(_)
trim(s) ==
    IF s = <<>> THEN s
    ELSE IF IsSpace(s[1]) THEN trim(Tail(s))
    ELSE IF IsSpace(s[Len(s)]) THEN trim(SubSeq(s, 1, Len(s) - 1))
    ELSE s

\* data.words: a TypeError on null and undefined, undefined unless data is an
\* object that has the property.
ReadsWords(data) == data.kind \notin {"null", "undefined"}

WordsOf(data) ==
    IF data.kind = "object" /\ "words" \in DOMAIN data.fields
    THEN data.fields.words
    ELSE JUndefined

\* !value
Falsy(value) ==
    \/ value.kind \in {"undefined", "null"}
    \/ value.kind = "number" /\ value.n = 0
    \/ value.kind = "string" /\ value.chars = <<>>

\* An addWord that posts the word as it was passed, not normalizedWord.
addWordPostsTyped(st, word) ==
    IF Falsy(word) \/ word.kind # "string"
    THEN [st EXCEPT !.added = FALSE]
    ELSE LET normalizedWord == trim(toLowerCase(word.chars))
         IN  IF Len(normalizedWord) < 2
             THEN [st EXCEPT !.added = FALSE]
             ELSE IF /\ Cardinality(st.words) >= MaxWords
                     /\ normalizedWord \notin st.words
             THEN [st EXCEPT !.added = FALSE]
             ELSE IF normalizedWord \in st.words
             THEN [st EXCEPT !.added = FALSE]
             ELSE [words |-> st.words \cup {normalizedWord},
                   posted |-> Append(st.posted,
                                     [type |-> "ADD_WORD",
                                      word |-> word.chars, call |-> 0]),
                   added |-> TRUE]

\* addWord(word) from this.words = st.words, after the messages st.posted;
\* added: what it returns.
addWord(st, word) ==
    IF Falsy(word) \/ word.kind # "string"
    THEN [st EXCEPT !.added = FALSE]
    ELSE LET normalizedWord == trim(toLowerCase(word.chars))
         IN  IF Len(normalizedWord) < 2
             THEN [st EXCEPT !.added = FALSE]
             ELSE IF /\ Cardinality(st.words) >= MaxWords
                     /\ normalizedWord \notin st.words
             THEN [st EXCEPT !.added = FALSE]
             ELSE IF normalizedWord \in st.words
             THEN [st EXCEPT !.added = FALSE]
             ELSE [words |-> st.words \cup {normalizedWord},
                   posted |-> Append(st.posted,
                                     [type |-> "ADD_WORD",
                                      word |-> normalizedWord, call |-> 0]),
                   added |-> TRUE]

\* addWords(words), from its word number i on: {added, failed} and the state.
RECURSIVE AddWordsFrom(_, _, _, _, _)
AddWordsFrom(st, words, i, added, failed) ==
    IF i > Len(words)
    THEN [words |-> st.words, posted |-> st.posted, count |-> added,
          failed |-> failed, threw |-> FALSE]
    ELSE LET next == addWord(st, words[i])
         IN  IF next.added
             THEN AddWordsFrom(next, words, i + 1, added + 1, failed)
             ELSE AddWordsFrom(next, words, i + 1, added,
                               Append(failed, words[i]))

addWords(st, words) == AddWordsFrom(st, words, 1, 0, <<>>)

\* The body of the try of importFromJSON; threw: it left the block by an
\* exception (of JSON.parse, of data.words, or the thrown Error).
ImportTry(st, jsonString) ==
    LET doc == JSONParse(jsonString)
        failure == [words |-> st.words, posted |-> st.posted, count |-> 0,
                    failed |-> <<>>, threw |-> TRUE]
    IN  IF doc.threw \/ ~ReadsWords(doc.value) THEN failure
        ELSE IF Falsy(WordsOf(doc.value)) \/ WordsOf(doc.value).kind # "array"
        THEN failure
        ELSE addWords(st, WordsOf(doc.value).items)

\* importFromJSON without its catch block.
importFromJSONUncaught(st, jsonString) == ImportTry(st, jsonString)

\* importFromJSON(jsonString)
importFromJSON(st, jsonString) ==
    LET tried == ImportTry(st, jsonString)
    IN  IF tried.threw
        THEN [words |-> st.words, posted |-> st.posted, count |-> 0,
              failed |-> <<>>, threw |-> FALSE]
        ELSE tried

\* A call of a method of CustomDictionary with what it found.
Returned(op, input, count, failed, threw) ==
    [op |-> op, input |-> input, words |-> hostWords, inbox |-> inbox,
     count |-> count, failed |-> failed, threw |-> threw]

\* The instance as a method finds it.
Instance == [words |-> hostWords, posted |-> inbox, added |-> FALSE]

\* new CustomDictionary(options) with the stored words, then setWorker.
InitDictionaryManager ==
    /\ dictionary = NoDictionary
    /\ customWords = {}
    /\ checkedCache = <<>>
    /\ regionCache = <<>>
    /\ currentCheckCache = {}
    /\ lastFullText = <<>>
    /\ tasks = {}
    /\ posted = <<>>
    /\ received = 0
    /\ answered = 0
    /\ prev = NoPrev
    /\ handled = NoMessage
    /\ NoInstance
    /\ NoApplication
    /\ hostReady = FALSE
    /\ hostWords \in StoredWords
    /\ hostCalls = <<>>
    /\ inbox = <<>>
    /\ outbox = <<>>
    /\ hostReturn = NoReturn
    /\ onmessage = "hook"
    /\ fetching = TRUE

\* customDictionary.importFromJSON(jsonString)
ImportFromJSON(jsonString) ==
    /\ Len(inbox) < MaxPosted
    /\ LET result == importFromJSON(Instance, jsonString)
       IN  /\ hostWords' = result.words
           /\ inbox' = result.posted
           /\ hostReturn' = Returned("importFromJSON", jsonString, result.count,
                                     result.failed, result.threw)
    /\ UNCHANGED <<hostReady, hostCalls, outbox, workerVars, cacheVars, utilVars, mountVars>>

\* customDictionary.addWord(word)
DictionaryAddWord(word) ==
    /\ Len(inbox) < MaxPosted
    /\ LET result == addWord(Instance, JString(word))
       IN  /\ hostWords' = result.words
           /\ inbox' = result.posted
           /\ hostReturn' = Returned("addWord", "", IF result.added THEN 1 ELSE 0,
                                     <<>>, FALSE)
    /\ UNCHANGED <<hostReady, hostCalls, outbox, workerVars, cacheVars, utilVars, mountVars>>

\* customDictionary.removeWord(word)
DictionaryRemoveWord(word) ==
    /\ Len(inbox) < MaxPosted
    /\ LET normalizedWord == trim(toLowerCase(word))
           wasRemoved == normalizedWord \in hostWords
       IN  /\ hostWords' = hostWords \ {normalizedWord}
           /\ inbox' = IF wasRemoved
                       THEN Append(inbox, [type |-> "REMOVE_WORD",
                                           word |-> normalizedWord, call |-> 0])
                       ELSE inbox
           /\ hostReturn' = Returned("removeWord", "", IF wasRemoved THEN 1 ELSE 0,
                                     <<>>, FALSE)
    /\ UNCHANGED <<hostReady, hostCalls, outbox, workerVars, cacheVars, utilVars, mountVars>>

NextDictionaryManager ==
    \/ \E jsonString \in JsonStrings : ImportFromJSON(jsonString)
    \/ \E word \in DictionaryWords : DictionaryAddWord(word)
    \/ \E word \in DictionaryWords : DictionaryRemoveWord(word)

SpecDictionaryManager == InitDictionaryManager /\ [][NextDictionaryManager]_vars

\* removeWord(word); added: what it returns.
removeWord(st, word) ==
    LET normalizedWord == trim(toLowerCase(word))
    IN  IF normalizedWord \in st.words
        THEN [words |-> st.words \ {normalizedWord},
              posted |-> Append(st.posted,
                                [type |-> "REMOVE_WORD",
                                 word |-> normalizedWord, call |-> 0]),
              added |-> TRUE]
        ELSE [st EXCEPT !.added = FALSE]

\* removeWords(words), from its word number i on: {removed, notFound} and
\* the state.
RECURSIVE RemoveWordsFrom(_, _, _, _, _)
RemoveWordsFrom(st, words, i, removed, notFound) ==
    IF i > Len(words)
    THEN [words |-> st.words, posted |-> st.posted, count |-> removed,
          failed |-> notFound, threw |-> FALSE]
    ELSE LET next == removeWord(st, words[i])
         IN  IF next.added
             THEN RemoveWordsFrom(next, words, i + 1, removed + 1, notFound)
             ELSE RemoveWordsFrom(next, words, i + 1, removed,
                                  Append(notFound, words[i]))

removeWords(st, words) == RemoveWordsFrom(st, words, 1, 0, <<>>)

\* The arrays of words the host passes to addWords and removeWords, and the
\* documents it imports.
WordLists == {<<<<"A","b">>, <<"c","d">>>>, <<<<"c","d">>, <<"x">>, <<"a","b">>>>}

ImportedStrings == {"{\"words\":null}", "{\"words\":[\"Ab\",\" cd \",\"x\",7,\"ab\"]}"}

\* The messages a call of the host left in the inbox can all be handled.
Handleable == received + Len(inbox') <= MaxMsgs

\* useSpellChecker.addWord(word): customDictionary.addWord, and the second
\* ADD_WORD the hook posts when the word was added.
HookAddWord(word) ==
    /\ LET result == addWord(Instance, JString(word))
       IN  /\ hostWords' = result.words
           /\ inbox' = IF result.added
                       THEN Append(result.posted,
                                   [type |-> "ADD_WORD",
                                    word |-> trim(toLowerCase(word)),
                                    call |-> 0])
                       ELSE result.posted
           /\ hostReturn' = Returned("addWord", "", IF result.added THEN 1 ELSE 0,
                                     <<>>, FALSE)
    /\ Handleable
    /\ UNCHANGED <<hostReady, hostCalls, outbox, workerVars, cacheVars, utilVars, mountVars>>

\* useSpellChecker.removeWord(word): customDictionary.removeWord, and the
\* second REMOVE_WORD the hook posts when the word was removed.
HookRemoveWord(word) ==
    /\ LET result == removeWord(Instance, word)
       IN  /\ hostWords' = result.words
           /\ inbox' = IF result.added
                       THEN Append(result.posted,
                                   [type |-> "REMOVE_WORD",
                                    word |-> trim(toLowerCase(word)),
                                    call |-> 0])
                       ELSE result.posted
           /\ hostReturn' = Returned("removeWord", "", IF result.added THEN 1 ELSE 0,
                                     <<>>, FALSE)
    /\ Handleable
    /\ UNCHANGED <<hostReady, hostCalls, outbox, workerVars, cacheVars, utilVars, mountVars>>

\* customDictionary.addWords(words)
DictionaryAddWords(words) ==
    /\ LET result == addWords(Instance, [i \in DOMAIN words |-> JString(words[i])])
       IN  /\ hostWords' = result.words
           /\ inbox' = result.posted
           /\ hostReturn' = Returned("addWords", "", result.count, result.failed,
                                     result.threw)
    /\ Handleable
    /\ UNCHANGED <<hostReady, hostCalls, outbox, workerVars, cacheVars, utilVars, mountVars>>

\* customDictionary.removeWords(words)
DictionaryRemoveWords(words) ==
    /\ LET result == removeWords(Instance, words)
       IN  /\ hostWords' = result.words
           /\ inbox' = result.posted
           /\ hostReturn' = Returned("removeWords", "", result.count,
                                     result.failed, result.threw)
    /\ Handleable
    /\ UNCHANGED <<hostReady, hostCalls, outbox, workerVars, cacheVars, utilVars, mountVars>>

\* customDictionary.clear()
DictionaryClear ==
    /\ hostWords' = {}
    /\ inbox' = Append(inbox, [type |-> "CLEAR_WORDS", word |-> <<>>, call |-> 0])
    /\ hostReturn' = Returned("clear", "", 0, <<>>, FALSE)
    /\ Handleable
    /\ UNCHANGED <<hostReady, hostCalls, outbox, workerVars, cacheVars, utilVars, mountVars>>

\* The worker handles the first message of its inbox.  What it posts is in
\* posted: newWorker.onmessage reads DICTIONARY_READY only.
WorkerHandles ==
    /\ inbox # <<>>
    /\ \/ /\ inbox[1].type = "ADD_WORD"
          /\ OnAddWord(inbox[1].word)
       \/ /\ inbox[1].type = "REMOVE_WORD"
          /\ OnRemoveWord(inbox[1].word)
       \/ /\ inbox[1].type = "CLEAR_WORDS"
          /\ OnClearWords
    /\ inbox' = Tail(inbox)
    /\ UNCHANGED <<hostReady, hostWords, hostCalls, outbox, hostReturn,
                   cacheVars, utilVars, mountVars>>

\* useSpellChecker is mounted with nothing in localStorage, setWorker has
\* been called, and the worker has handled INIT_DICTIONARY and a CHECK_TEXT
\* of "helo"; the messages are counted from there.
InitSync ==
    /\ dictionary \in {[loaded |-> TRUE, accepts |-> accepts] : accepts \in Dictionaries}
    /\ customWords = {}
    /\ checkedCache = <<>>
    /\ regionCache = <<>>
    /\ currentCheckCache = {WordHelo}
    /\ lastFullText = WordHelo
    /\ tasks = {}
    /\ posted = <<>>
    /\ received = 0
    /\ answered = 0
    /\ prev = NoPrev
    /\ handled = NoMessage
    /\ NoInstance
    /\ hostReady = FALSE
    /\ hostWords = {}
    /\ hostCalls = <<>>
    /\ inbox = <<>>
    /\ outbox = <<>>
    /\ hostReturn = NoReturn
    /\ onmessage = "hook"
    /\ fetching = FALSE
    /\ NoApplication

NextSync ==
    \/ \E word \in DictionaryWords : HookAddWord(word)
    \/ \E word \in DictionaryWords : HookRemoveWord(word)
    \/ \E word \in DictionaryWords : DictionaryAddWord(word) /\ Handleable
    \/ \E words \in WordLists : DictionaryAddWords(words)
    \/ \E words \in WordLists : DictionaryRemoveWords(words)
    \/ DictionaryClear
    \/ \E jsonString \in ImportedStrings : ImportFromJSON(jsonString) /\ Handleable
    \/ WorkerHandles
    \/ \E t \in tasks : Resume(t)

SpecSync == InitSync /\ [][NextSync]_vars

(***************************************************************************)
(* Properties of the worker.                                               *)
(***************************************************************************)
\* The CHECK_RESULT messages the last step posted.
CheckResults == {posted[i] : i \in {j \in DOMAIN posted : posted[j].type = "CHECK_RESULT"}}

\* The CHECK_RESULT messages that answer a CHECK_TEXT or CHECK_INCREMENTAL.
CheckAnswers == {r \in CheckResults : r.reqType \in CheckTypes}

LowerInvalid(r) == {toLowerCase(r.invalidWords[i].word) : i \in DOMAIN r.invalidWords}

\* C1: a check request received after ADD_WORD(w) (and before any REMOVE_WORD(w)
\* or CLEAR_WORDS) is answered by a CHECK_RESULT whose invalidWords does not
\* contain w in any letter case.
C1_CheckObservesAddWord ==
    \A r \in CheckAnswers : LowerInvalid(r) \cap r.approved = {}

\* C2: no handler begins while an earlier one is suspended at its yield (a
\* suspended handler is that of the message received last), and the messages
\* are posted in the order in which their requests arrived.
C2_OneHandlerAtATime ==
    /\ \A t \in tasks : t.id = received
    /\ \A i \in DOMAIN posted : posted[i].req >= posted[i].before

\* C4: a region served from the region cache gets the results that tokenizing
\* and checking its current text gives.
C4_RegionCacheHitIsFresh ==
    \A r \in CheckResults : ~r.staleHit

\* C5: no entry of the region cache or of the word cache was computed under a
\* custom word set other than the current one.
C5_CachesFollowCustomWords ==
    /\ \A i \in DOMAIN regionCache : regionCache[i].value.cw = customWords
    /\ \A i \in DOMAIN checkedCache :
          checkedCache[i].value =
              IsValid(dictionary, customWords, checkedCache[i].key)

\* C6: every entry (k, v) of the word cache has v = (k is a custom word, or the
\* current dictionary accepts k), and v = TRUE as long as no dictionary is
\* initialized.
C6_WordCacheInvariant ==
    \A i \in DOMAIN checkedCache :
        LET k == checkedCache[i].key
            v == checkedCache[i].value
        IN  /\ v = (k \in customWords \/ ~dictionary.loaded \/ k \in dictionary.accepts)
            /\ ~dictionary.loaded => v = TRUE

\* C6 witness: with a dictionary and a custom word, the word cache holds a
\* rejected word and a word valid only as a custom word.
C6_Witness ==
    /\ dictionary.loaded
    /\ \E i \in DOMAIN checkedCache : ~checkedCache[i].value
    /\ \E i \in DOMAIN checkedCache :
          /\ checkedCache[i].value
          /\ checkedCache[i].key \in customWords \ dictionary.accepts

\* C7: as long as no INIT_DICTIONARY has been handled, every check is answered
\* by a CHECK_RESULT with an empty invalidWords.
C7_FailOpen ==
    \A i \in DOMAIN posted :
        (posted[i].type = "CHECK_RESULT" /\ ~posted[i].dict.loaded)
            => posted[i].invalidWords = <<>>

\* C7 witness: a text with words, checked incrementally before any dictionary
\* is there.
C7_Witness ==
    \E r \in CheckAnswers :
        /\ ~r.dict.loaded
        /\ r.reqType = "CHECK_INCREMENTAL"
        /\ Matches(r.fullText) # <<>>

\* The distinct lowercase words of a text.
DistinctWords(text) ==
    LET ms == Matches(text) IN {toLowerCase(ms[i].word) : i \in DOMAIN ms}

\* The answers to a CHECK_TEXT received right after an identical CHECK_TEXT was
\* answered, neither run interleaved with another handler.
RepeatedAnswers ==
    {r \in CheckResults :
        r.reqType = "CHECK_TEXT" /\ r.repeatOf.id # 0 /\ ~r.interleaved}

RECURSIVE InvalidTokens(_, _, _)
InvalidTokens(ms, dict, cw) ==
    IF ms = <<>> THEN <<>>
    ELSE LET lower == toLowerCase(Head(ms).word)
         IN  (IF lower \notin cw /\ dict.loaded /\ lower \notin dict.accepts
              THEN <<Head(ms)>> ELSE <<>>)
             \o InvalidTokens(Tail(ms), dict, cw)

\* C9: a CHECK_TEXT handled without interleaving lists exactly the invalid word
\* tokens of fullText, in order, each with fullText[start:end] = word.
C9_CheckTextReportsInvalidTokens ==
    \A r \in CheckResults :
        (r.reqType = "CHECK_TEXT" /\ ~r.interleaved) =>
            /\ r.invalidWords = InvalidTokens(Matches(r.fullText), r.dict, r.cw)
            /\ \A i \in DOMAIN r.invalidWords :
                  LET e == r.invalidWords[i]
                  IN  /\ 0 <= e.start /\ e.start < e.end /\ e.end <= Len(r.fullText)
                      /\ SubSeq(r.fullText, e.start + 1, e.end) = e.word

\* C9 witness: dictionary {hello, world}, custom word helo, text "helo wrold":
\* only (wrold, 5, 10) is reported.
C9_Witness ==
    \E r \in CheckResults :
        /\ r.reqType = "CHECK_TEXT" /\ ~r.interleaved
        /\ r.fullText = TextHeloWrold
        /\ r.dict = [loaded |-> TRUE, accepts |-> {WordHello, WordWorld}]
        /\ r.cw = {WordHelo}
        /\ r.invalidWords =
              <<[word |-> <<"w","r","o","l","d">>, start |-> 5, end |-> 10]>>

\* C10: a step that handles ADD_WORD, REMOVE_WORD or CLEAR_WORDS while
\* lastFullText is not empty checks lastFullText again: its CHECK_RESULT is
\* posted, or the check is under way (suspended at a yield).
C10_EveryMutationRechecks ==
    [][((\E word \in PayloadWords : AddWord(word) \/ RemoveWord(word)) \/ ClearWords)
         /\ lastFullText # <<>>
       => \/ \E i \in DOMAIN posted' :
                /\ posted'[i].type = "CHECK_RESULT"
                /\ posted'[i].req = received'
                /\ posted'[i].fullText = lastFullText
          \/ \E t \in tasks' : t.id = received' /\ t.fullText = lastFullText]_vars

\* C11: once CLEAR_WORDS has been handled, the custom word set, the word cache
\* and the region cache are empty and no message was posted, in every state
\* of the session (suspended handlers included).
C11_ClearWordsIsSilent ==
    handled.type = "CLEAR_WORDS" =>
        /\ customWords = {}
        /\ checkedCache = <<>>
        /\ regionCache = <<>>
        /\ posted = <<>>

\* C11 witness: CLEAR_WORDS was handled with a dictionary, while a check was
\* suspended at a yield.
C11_Witness ==
    /\ handled.type = "CLEAR_WORDS"
    /\ dictionary.loaded
    /\ \E t \in tasks : t.type \in CheckTypes

MutationTypes == {"ADD_WORD", "REMOVE_WORD"}

\* p is what the handler id of an ADD_WORD or REMOVE_WORD (type) of word,
\* received when lastFullText was text, posts when it ends: the CHECK_RESULT
\* of text if there is a text, then the DICTIONARY_UPDATED.
UpdatePosted(p, id, type, word, text) ==
    /\ Len(p) = IF text = <<>> THEN 1 ELSE 2
    /\ p[Len(p)].type = "DICTIONARY_UPDATED"
    /\ p[Len(p)].req = id
    /\ p[Len(p)].action = type
    /\ p[Len(p)].word = word
    /\ text # <<>> =>
          /\ p[1].type = "CHECK_RESULT"
          /\ p[1].req = id
          /\ p[1].fullText = text

\* C12: after a step of the handler of an ADD_WORD or REMOVE_WORD, the handler
\* is suspended in its recheck and has posted nothing, or it has ended and
\* posted one DICTIONARY_UPDATED with the matching action and the word as
\* sent, preceded by one CHECK_RESULT for the lastFullText of its arrival when
\* that is not empty and by none when it is empty; no other step posts
\* DICTIONARY_UPDATED.
C12_UpdatedAfterRecheck ==
    /\ handled.type \in MutationTypes =>
          \/ posted = <<>> /\ \E t \in tasks : t.id = handled.id
          \/ /\ UpdatePosted(posted, handled.id, handled.type, handled.word,
                              handled.text)
             /\ ~\E t \in tasks : t.id = handled.id
    /\ \A i \in DOMAIN posted :
          posted[i].type = "DICTIONARY_UPDATED" => handled.type \in MutationTypes

\* C12 witness: an ADD_WORD or REMOVE_WORD of "Helo" that was suspended in its
\* recheck while another message was handled has posted CHECK_RESULT, then
\* DICTIONARY_UPDATED.
C12_Witness ==
    /\ handled.type \in MutationTypes
    /\ handled.resumed
    /\ handled.word = <<"H","e","l","o">>
    /\ Len(posted) = 2
    /\ posted[1].interleaved

\* C13: a CHECK_TEXT or CHECK_INCREMENTAL suspended at a yield stays suspended
\* or posts its own CHECK_RESULT, whatever the step (no message drops it), and
\* with the timers firing no check stays suspended for ever: the step that ends
\* its suspension is, by the first conjunct, the step that posts its result.
C13_ChecksRunToCompletion ==
    /\ [][\A t \in tasks :
             t.type \in CheckTypes =>
                 \/ \E u \in tasks' : u.id = t.id
                 \/ \E i \in DOMAIN posted' :
                       /\ posted'[i].type = "CHECK_RESULT"
                       /\ posted'[i].req = t.id
                       /\ posted'[i].reqType = t.type]_vars
    /\ \A id \in 1..MaxMsgs :
          []<>(~\E t \in tasks : t.id = id /\ t.type \in CheckTypes)

\* C13 witness: a check that was suspended while another message was handled
\* has posted its CHECK_RESULT.
C13_Witness ==
    \E r \in CheckAnswers : r.interleaved /\ r.dict.loaded

\* C14: lastFullText is empty until a message is handled, and after a step it
\* is the fullText of the CHECK_TEXT or CHECK_INCREMENTAL whose check the step
\* completed, and what the step found in every other case: the step of any
\* other message, the recheck of ADD_WORD and REMOVE_WORD included, and a step
\* that leaves a check suspended.
C14_LastFullTextFrame ==
    /\ handled.id = 0 => lastFullText = <<>>
    /\ handled.id # 0 =>
          lastFullText =
              IF handled.type \in CheckTypes
                 /\ \E r \in CheckAnswers : r.req = handled.id
              THEN handled.text
              ELSE handled.last

\* The recheck of an ADD_WORD ends after a check of another text has been
\* completed beside it.
C14_Witness ==
    /\ handled.type = "ADD_WORD"
    /\ handled.resumed
    /\ \E i \in DOMAIN posted : posted[i].type = "DICTIONARY_UPDATED"
    /\ handled.text # <<>>
    /\ handled.last # handled.text
    /\ lastFullText = handled.last

\* The nodes from the given one on along the next references, up to the tail
\* sentinel; NullRef ends the list where the references do not lead there
\* within fuel steps.
RECURSIVE Forward(_, _, _)
Forward(ns, node, fuel) ==
    IF node = TailNode THEN <<>>
    ELSE IF node = NullRef \/ fuel = 0 THEN <<NullRef>>
    ELSE <<node>> \o Forward(ns, ns[node].next, fuel - 1)

\* The recency list between the two sentinels.
ListNodes == Forward(lruNodes, lruNodes[HeadNode].next, Len(lruNodes))

ListKeys ==
    [i \in DOMAIN ListNodes |->
        IF ListNodes[i] = NullRef THEN "broken" ELSE lruNodes[ListNodes[i]].key]

\* The call found capacity keys stored and set one more.
Overflowed(call) ==
    /\ call.op = "set"
    /\ call.key \notin call.keys
    /\ Cardinality(call.keys) = lruCapacity

\* C15: a set of a new key beside capacity stored keys evicts one key, the
\* one whose latest successful get or set is the oldest; the recency list
\* holds the stored keys in the order of their latest successful get or set,
\* which a get hit and a set of an existing key put first and has leaves as
\* it is.
C15_EvictsLeastRecentlyUsed ==
    /\ Overflowed(lruLast) =>
          DOMAIN lruCache =
              (lruLast.keys \cup {lruLast.key})
                  \ {lruLast.recency[Len(lruLast.recency)]}
    /\ ListKeys = lruRecency
    /\ lruLast.op = "has" => lruRecency = lruLast.recency

\* C16: after every call the stored keys are at most capacity, the size
\* counter is their number, and the recency list leads from the head sentinel
\* to the tail sentinel through the nodes of the stored keys, once each.
C16_CapacityInvariant ==
    /\ Cardinality(DOMAIN lruCache) <= lruCapacity
    /\ lruSize = Cardinality(DOMAIN lruCache)
    /\ Len(ListNodes) = lruSize
    /\ \A i \in DOMAIN ListNodes :
          /\ ListNodes[i] # NullRef
          /\ ListKeys[i] \in DOMAIN lruCache
          /\ lruCache[ListKeys[i]] = ListNodes[i]

\* The nodes from the given one back along the prev references, up to the
\* head sentinel.
RECURSIVE Backward(_, _, _)
Backward(ns, node, fuel) ==
    IF node = HeadNode THEN <<>>
    ELSE IF node = NullRef \/ fuel = 0 THEN <<NullRef>>
    ELSE Backward(ns, ns[node].prev, fuel - 1) \o <<node>>

\* The recency list as removeTail walks it, from tail.prev back to the head.
ListNodesBack == Backward(lruNodes, lruNodes[TailNode].prev, Len(lruNodes))

\* C31: delete(key) returns true and removes that key and no other when it
\* is stored, and returns false and changes neither the stored keys nor the
\* size when it is not; in both cases the other keys keep their order in the
\* recency list, read from the head and read from the tail; and a set of the
\* key just deleted stores it at the head of the list.
C31_DeleteRemovesOneKey ==
    [][\A key \in CacheKeys :
          /\ (lruOps' = lruOps + 1 /\ lruLast'.op = "delete" /\ lruLast'.key = key) =>
                /\ lruLast'.result = (key \in DOMAIN lruCache)
                /\ DOMAIN lruCache' = (DOMAIN lruCache) \ {key}
                /\ key \notin DOMAIN lruCache =>
                      lruCache' = lruCache /\ lruSize' = lruSize
                /\ ListKeys' = Without(ListKeys, key)
                /\ ListNodesBack' =
                      SelectSeq(ListNodesBack,
                                LAMBDA n : n = NullRef \/ lruNodes[n].key # key)
          /\ (/\ lruLast.op = "delete"
              /\ lruLast.key = key
              /\ lruOps' = lruOps + 1
              /\ lruLast'.op = "set"
              /\ lruLast'.key = key) =>
                /\ key \in DOMAIN lruCache'
                /\ ListKeys' # <<>>
                /\ ListKeys'[1] = key]_vars

\* C32: customWords is the set of the lowercased words of the ADD_WORD
\* messages handled and not removed since by a REMOVE_WORD of the word in any
\* letter case or by a CLEAR_WORDS; GET_CACHE_STATS posts one CACHE_STATS
\* whose customWordsCount is the number of its elements, and its step changes
\* neither customWords, nor a cache and its recency order, nor lastFullText.
C32_StatsCountCustomWords ==
    [][/\ customWords' =
             IF handled'.resumed THEN customWords
             ELSE IF handled'.type = "ADD_WORD"
             THEN customWords \cup {toLowerCase(handled'.word)}
             ELSE IF handled'.type = "REMOVE_WORD"
             THEN customWords \ {toLowerCase(handled'.word)}
             ELSE IF handled'.type = "CLEAR_WORDS" THEN {}
             ELSE customWords
       /\ handled'.type = "GET_CACHE_STATS" =>
             /\ Len(posted') = 1
             /\ posted'[1].type = "CACHE_STATS"
             /\ posted'[1].customWordsCount = Cardinality(customWords)
             /\ UNCHANGED <<customWords, checkedCache, regionCache,
                            lastFullText>>]_vars

\* Two words were added in three letter cases, a check filled the word
\* cache, and CACHE_STATS counts two.
C32_Witness ==
    /\ handled.type = "GET_CACHE_STATS"
    /\ posted[1].customWordsCount = 2
    /\ customWords = {<<"h","e","l","o">>, <<"w","r","o","l","d">>}
    /\ checkedCache # <<>>

\* The custom words whose DICTIONARY_UPDATED was posted before the
\* CHECK_RESULT r of this step: every custom word but those of an ADD_WORD
\* whose recheck is suspended and that of the ADD_WORD that posts r.
UpdatedBefore(r) ==
    customWords \
        ({toLowerCase(t.word) : t \in {o \in tasks : o.type = "ADD_WORD"}}
         \cup {toLowerCase(posted[i].word) :
                  i \in {j \in DOMAIN posted :
                            /\ posted[j].type = "DICTIONARY_UPDATED"
                            /\ posted[j].action = "ADD_WORD"
                            /\ posted[j].req = r.req}})

\* C33: no CHECK_RESULT, of a check, of a resumed check or of a recheck,
\* lists a word whose ADD_WORD posted its DICTIONARY_UPDATED before and that
\* no REMOVE_WORD or CLEAR_WORDS took out of the custom words since.
C33_NoStaleResultAfterUpdate ==
    \A r \in CheckResults : LowerInvalid(r) \cap UpdatedBefore(r) = {}

\* C34: while no handler is suspended, lastFullText is the fullText of the
\* check request that arrived last, and empty before the first one, whatever
\* the order in which the checks were completed.
C34_LastFullTextIsLatestArrival ==
    tasks = {} =>
        lastFullText = TextOfArrival(received)

\* C17: no CHECK_RESULT, of a check or of a recheck, reports a word that the
\* dictionary accepts, whatever was added to, removed from or cleared out of
\* the custom words before the check and while it was suspended.
C17_CustomWordsOnlyAllow ==
    \A r \in CheckResults : LowerInvalid(r) \cap dictionary.accepts = {}

\* A check of a text with "world" reports a word after "World" was added to
\* the custom words while the check was suspended.
C17_Witness ==
    \E r \in CheckAnswers :
        /\ r.interleaved
        /\ r.dict.loaded
        /\ r.invalidWords # <<>>
        /\ WordWorld \in r.cw
        /\ WordWorld \notin r.approved

C19_ResolvedByOwnResponse ==
    \A c \in DOMAIN hostCalls :
        /\ hostCalls[c].resolved /\ hostCalls[c].by = 0 =>
              hostCalls[c].value = <<>>
        /\ hostCalls[c].resolved /\ hostCalls[c].by # 0 /\ hostCalls[c].answered =>
              hostCalls[c].value = hostCalls[c].own

\* C20: the step of a GET_SUGGESTIONS posts one message, a SUGGESTIONS_RESULT
\* with the word of the request, whatever the state of the worker and the
\* handlers suspended beside it; its list is empty when no dictionary is loaded
\* and when the lowercased word is a custom word; no other step posts a
\* SUGGESTIONS_RESULT.
C20_SuggestionsAlwaysAnswered ==
    /\ handled.type = "GET_SUGGESTIONS" =>
          /\ Len(posted) = 1
          /\ posted[1].type = "SUGGESTIONS_RESULT"
          /\ posted[1].req = handled.id
          /\ posted[1].word = handled.word
          /\ ~dictionary.loaded => posted[1].suggestions = <<>>
          /\ toLowerCase(handled.word) \in customWords =>
                posted[1].suggestions = <<>>
    /\ \A i \in DOMAIN posted :
          posted[i].type = "SUGGESTIONS_RESULT" => handled.type = "GET_SUGGESTIONS"

\* Suggestions are asked for a custom word that the loaded dictionary has
\* suggestions for.
C20_Witness ==
    /\ handled.type = "GET_SUGGESTIONS"
    /\ dictionary.loaded
    /\ handled.word # <<>>
    /\ toLowerCase(handled.word) \in customWords
    /\ posted # <<>>
    /\ posted[1].suggestions = <<>>

\* A region of the text: 0 <= start <= end <= length.
WellFormed(region, fullText) ==
    0 <= region.start /\ region.start <= region.end /\ region.end <= Len(fullText)

\* C22: in the CHECK_RESULT of a CHECK_INCREMENTAL, a region with start > end
\* or with bounds outside fullText contributes no entry to invalidWords (every
\* entry lies in a well-formed region of the batch) and is not stored in the
\* region cache, and what a well-formed region of the batch holds of invalid
\* words is reported.
C22_MalformedRegionsSkipped ==
    \A r \in CheckAnswers :
        r.reqType = "CHECK_INCREMENTAL" =>
            /\ \A i \in DOMAIN r.invalidWords :
                  \E k \in DOMAIN r.regions :
                      /\ WellFormed(r.regions[k], r.fullText)
                      /\ r.regions[k].start <= r.invalidWords[i].start
                      /\ r.invalidWords[i].end <= r.regions[k].end
            /\ \A k \in DOMAIN r.regions :
                  \/ WellFormed(r.regions[k], r.fullText)
                  \/ ~LRUHas(regionCache, RegionKey(r.regions[k]))
            /\ \A k \in DOMAIN r.regions :
                  WellFormed(r.regions[k], r.fullText) =>
                      \A e \in Range(Shifted(FreshFrom(r.regions[k].text, r.dict,
                                                       r.cw, 0),
                                             r.regions[k].start)) :
                          e \in Range(r.invalidWords)

\* C28: in the CHECK_RESULT of a CHECK_INCREMENTAL whose regions carry the
\* text of fullText over their span, every entry of invalidWords, computed or
\* taken from the region cache, is document-relative: fullText[start:end] is
\* its word.
C28_IncrementalResultsDocumentRelative ==
    \A r \in CheckAnswers :
        (/\ r.reqType = "CHECK_INCREMENTAL"
         /\ \A k \in DOMAIN r.regions :
               /\ WellFormed(r.regions[k], r.fullText)
               /\ r.regions[k].text = SubSeq(r.fullText, r.regions[k].start + 1,
                                             r.regions[k].end)) =>
            \A i \in DOMAIN r.invalidWords :
                /\ 0 <= r.invalidWords[i].start
                /\ r.invalidWords[i].end <= Len(r.fullText)
                /\ SubSeq(r.fullText, r.invalidWords[i].start + 1,
                          r.invalidWords[i].end) = r.invalidWords[i].word

\* C29: in every CHECK_RESULT (of CHECK_TEXT, of CHECK_INCREMENTAL with or
\* without a region-cache hit, of the recheck of a mutation) the lowercase form
\* of each word of invalidWords is a key of that response's currentCheckCache.
C29_ReverseMapCoversReported ==
    \A r \in CheckResults : LowerInvalid(r) \subseteq r.currentCheckCache

\* C36: the currentCheckCache of the CHECK_RESULT of a CHECK_TEXT has no key
\* but the lowercase forms of the words of that response's invalidWords,
\* whatever messages were handled before.
C36_ReverseMapOfThisCheckOnly ==
    \A r \in CheckResults :
        r.reqType = "CHECK_TEXT" => r.currentCheckCache \subseteq LowerInvalid(r)

(***************************************************************************)
(* Properties of CustomDictionary.                                         *)
(***************************************************************************)
\* The string is not valid JSON, or its value has no words array.
NoWordsArray(jsonString) ==
    \E d \in JsonDocuments :
        /\ d.text = jsonString
        /\ \/ d.threw
           \/ d.value.kind # "object"
           \/ "words" \notin DOMAIN d.value.fields
           \/ d.value.fields.words.kind # "array"

C37_HostAndWorkerAgree ==
    inbox = <<>> => customWords = hostWords

\* The worker has handled the three messages the host posted, and both
\* sides hold the two words the host added.
C37_Witness ==
    /\ inbox = <<>>
    /\ received = 3
    /\ hostWords = {<<"a","b">>, <<"c","d">>}
    /\ customWords = hostWords

(***************************************************************************)
(* Incremental against full: a worker that has a dictionary and a checked  *)
(* text receives one CHECK_INCREMENTAL with the regions the host computes  *)
(* from the previous text and the edited one.                              *)
(***************************************************************************)
DiffAlphabet == {"a", " ", "1", "'"}

\* The length of the texts of SpecDiff.
MaxTextLen == 3

DiffTexts == UNION {[1..n -> DiffAlphabet] : n \in 0..MaxTextLen}

DiffDictionary == [loaded |-> TRUE, accepts |-> {<<"a", "a">>}]

InitDiff ==
    /\ dictionary = DiffDictionary
    /\ customWords = {}
    /\ checkedCache = <<>>
    /\ regionCache = <<>>
    /\ currentCheckCache = {}
    /\ lastFullText \in DiffTexts \ {<<>>}
    /\ tasks = {}
    /\ posted = <<>>
    /\ received = 0
    /\ answered = 0
    /\ prev = NoPrev
    /\ handled = NoMessage
    /\ NoInstance
    /\ NoHost
    /\ NoApplication

\* The host edits the text and sends the regions of the edit.
DiffEdit(newText) ==
    /\ received = 0
    /\ HostEdit(lastFullText, newText)

NextDiff ==
    \/ \E newText \in DiffTexts : DiffEdit(newText)
    \/ \E t \in tasks : Resume(t)

SpecDiff == InitDiff /\ [][NextDiff]_vars

(***************************************************************************)
(* utils/index.ts: calls of mergeOverlappingRegions with regions of one    *)
(* document, and of calculateIncrementalCheckRegions.                      *)
(***************************************************************************)
\* The length of the document whose regions are merged, and the number of
\* regions of a call.
MaxDocLen == 4

MaxRegions == 3

\* The document: "abcd".
MergeDoc == SubSeq(LowerSeq, 1, MaxDocLen)

\* The spans <<start, end>> of the document, 0 <= start <= end <= length.
DocSpans == {sp \in (0..MaxDocLen) \X (0..MaxDocLen) : sp[1] <= sp[2]}

SpanLists == UNION {[1..n -> DocSpans] : n \in 0..MaxRegions}

\* The regions of the spans: the text of a region is the document's substring.
RegionsOf(doc, spans) ==
    [i \in DOMAIN spans |->
        [start |-> spans[i][1], end |-> spans[i][2],
         text |-> Slice(doc, spans[i][1], spans[i][2])]]

\* The worker, the cache and the host untouched, before a call of a function
\* with the given arguments.
BeforeCall(arguments) ==
    /\ dictionary = NoDictionary
    /\ customWords = {}
    /\ checkedCache = <<>>
    /\ regionCache = <<>>
    /\ currentCheckCache = {}
    /\ lastFullText = <<>>
    /\ tasks = {}
    /\ posted = <<>>
    /\ received = 0
    /\ answered = 0
    /\ prev = NoPrev
    /\ handled = NoMessage
    /\ NoInstance
    /\ NoHost
    /\ applied \in arguments

InitMerge ==
    BeforeCall({[fn |-> "arguments", spans |-> spans] : spans \in SpanLists})

\* mergeOverlappingRegions(regions) for the regions of the spans.
Merge ==
    /\ applied.fn = "arguments"
    /\ applied' = [fn |-> "mergeOverlappingRegions", doc |-> MergeDoc,
                   regions |-> RegionsOf(MergeDoc, applied.spans),
                   result |-> mergeOverlappingRegions(
                                  RegionsOf(MergeDoc, applied.spans))]
    /\ UNCHANGED <<workerVars, cacheVars, hostVars, mountVars>>

NextMerge == Merge

SpecMerge == InitMerge /\ [][NextMerge]_vars

\* The texts of calculateIncrementalCheckRegions: those of SpecDiff, and the
\* longer ones of words and spaces.
EditAlphabet == {"a", " "}

MaxEditLen == 5

EditTexts == DiffTexts \cup UNION {[1..n -> EditAlphabet] : n \in 0..MaxEditLen}

ContextWords == {0, 1, DefaultContextWords}

InitCalculate ==
    BeforeCall({[fn |-> "arguments", oldText |-> oldText, newText |-> newText,
                 contextWords |-> contextWords] :
                    oldText \in EditTexts, newText \in EditTexts,
                    contextWords \in ContextWords})

\* calculateIncrementalCheckRegions(oldText, newText, contextWords)
Calculate ==
    /\ applied.fn = "arguments"
    /\ applied' = [fn |-> "calculateIncrementalCheckRegions",
                   oldText |-> applied.oldText, newText |-> applied.newText,
                   contextWords |-> applied.contextWords,
                   changes |-> calculateTextChanges(applied.oldText,
                                                    applied.newText),
                   result |-> calculateIncrementalCheckRegions(
                                  applied.oldText, applied.newText,
                                  applied.contextWords)]
    /\ UNCHANGED <<workerVars, cacheVars, hostVars, mountVars>>

NextCalculate == Calculate

SpecCalculate == InitCalculate /\ [][NextCalculate]_vars

\* The words suggestions are asked for: "helo", "Teh", "the", "a", "adn",
\* "wrold", "peple", "zzzzzzzz", "frist" and "".
SuggestWords ==
    {<<"h","e","l","o">>, <<"T","e","h">>, <<"t","h","e">>, <<"a">>,
     <<"a","d","n">>, <<"w","r","o","l","d">>, <<"p","e","p","l","e">>,
     <<"z","z","z","z","z","z","z","z">>, <<"f","r","i","s","t">>, <<>>}

\* The largest maxSuggestions asked for.
MaxRequested == 5

InitSuggest ==
    BeforeCall({[fn |-> "arguments", loaded |-> loaded, cw |-> cw, word |-> word,
                 native |-> native, maxSuggestions |-> maxSuggestions] :
                    loaded \in BOOLEAN, cw \in {{}, {<<"h","e","l","o">>}},
                    word \in SuggestWords, native \in NativeSuggestions,
                    maxSuggestions \in 1..MaxRequested})

\* getSuggestions(word, maxSuggestions) in a worker with the given dictionary
\* and custom words.
Suggest ==
    /\ applied.fn = "arguments"
    /\ applied' = [fn |-> "getSuggestions", loaded |-> applied.loaded,
                   cw |-> applied.cw, word |-> applied.word,
                   native |-> applied.native,
                   maxSuggestions |-> applied.maxSuggestions,
                   result |-> getSuggestions(
                                  [loaded |-> applied.loaded, accepts |-> {}],
                                  applied.cw, applied.word, applied.native,
                                  applied.maxSuggestions)]
    /\ UNCHANGED <<workerVars, cacheVars, hostVars, mountVars>>

NextSuggest == Suggest

SpecSuggest == InitSuggest /\ [][NextSuggest]_vars

(***************************************************************************)
(* Properties of the functions of utils/index.ts.                          *)
(***************************************************************************)
\* text[start:end]: the characters of text at the offsets start .. end - 1.
Substring(text, start, end) ==
    LET from == IF start < 0 THEN 0 ELSE start
        to   == IF end > Len(text) THEN Len(text) ELSE end
    IN  [i \in 1..(to - from) |-> text[from + i]]

\* The regions form one group: they overlap or touch from the smallest start
\* to the largest end.
OneGroup(regions) ==
    /\ regions # <<>>
    /\ \A p \in Min({regions[i].start : i \in DOMAIN regions})
                ..(Max({regions[i].end : i \in DOMAIN regions}) - 1) :
          \E i \in DOMAIN regions :
              regions[i].start <= p /\ p + 1 <= regions[i].end

TouchedWordsInside(newText, change, regions) ==
    \A w \in Range(Matches(newText)) :
        (w.start <= change.end /\ w.end >= change.start) =>
            \E g \in Range(regions) : g.start <= w.start /\ w.end <= g.end

\* C24: for a non-empty oldText that differs from newText and contextWords
\* >= 0, every word token of newText that overlaps or touches the changed
\* span [start, end) of calculateTextChanges lies inside the region that
\* calculateIncrementalCheckRegions returns.
C24_TouchedWordsRechecked ==
    (/\ applied.fn = "calculateIncrementalCheckRegions"
     /\ applied.oldText # <<>>
     /\ applied.oldText # applied.newText) =>
        /\ Len(applied.changes) = 1
        /\ TouchedWordsInside(applied.newText, applied.changes[1], applied.result)

\* C35: every region that calculateIncrementalCheckRegions returns, for any
\* oldText and newText and contextWords >= 0, has
\* 0 <= start <= end <= length(newText).
C35_RegionsWellFormed ==
    applied.fn = "calculateIncrementalCheckRegions" =>
        \A i \in DOMAIN applied.result :
            /\ 0 <= applied.result[i].start
            /\ applied.result[i].start <= applied.result[i].end
            /\ applied.result[i].end <= Len(applied.newText)

\* C25: with both texts non-empty, calculateIncrementalCheckRegions returns
\* the empty list if and only if oldText equals newText, and exactly one
\* region whenever they differ.
C25_NoRegionIffEqual ==
    (/\ applied.fn = "calculateIncrementalCheckRegions"
     /\ applied.oldText # <<>>
     /\ applied.newText # <<>>) =>
        /\ (applied.result = <<>>) <=> (applied.oldText = applied.newText)
        /\ applied.oldText # applied.newText => Len(applied.result) = 1

\* C25 witness: one character appended at the very end of a text gives one
\* region.
C25_Witness ==
    /\ applied.fn = "calculateIncrementalCheckRegions"
    /\ applied.oldText = <<"a", "a", " ">>
    /\ applied.newText = <<"a", "a", " ", "a">>
    /\ Len(applied.result) = 1

\* C26: when oldText or newText is empty, calculateIncrementalCheckRegions
\* returns exactly the region {start: 0, end: length(newText), text: newText},
\* for every other text and every contextWords.
C26_EmptyTextGivesWholeText ==
    (/\ applied.fn = "calculateIncrementalCheckRegions"
     /\ (applied.oldText = <<>> \/ applied.newText = <<>>)) =>
        applied.result = <<[start |-> 0, end |-> Len(applied.newText),
                            text |-> applied.newText]>>

\* C26 witness: from the empty text to " aa", whose word does not start at its
\* start, without context words.
C26_Witness ==
    /\ applied.fn = "calculateIncrementalCheckRegions"
    /\ applied.oldText = <<>>
    /\ applied.newText = <<" ", "a", "a">>
    /\ applied.contextWords = 0
    /\ applied.result[1].start = 0
    /\ applied.result[1].end = 3

\* C27: every region that calculateIncrementalCheckRegions returns has the
\* text newText[start:end].
C27_RegionTextIsSubstring ==
    applied.fn = "calculateIncrementalCheckRegions" =>
        \A g \in Range(applied.result) :
            g.text = Substring(applied.newText, g.start, g.end)

\* C27 witness: a region expanded beyond the changed span to the words around
\* it.
C27_Witness ==
    /\ applied.fn = "calculateIncrementalCheckRegions"
    /\ applied.oldText # <<>>
    /\ Len(applied.changes) = 1
    /\ Len(applied.result) = 1
    /\ applied.result[1].start < applied.changes[1].start
    /\ applied.result[1].end > applied.changes[1].end
    /\ applied.result[1].text # <<>>

(***************************************************************************)
(* Properties of getSuggestions.                                           *)
(***************************************************************************)
\* The strings one edit away from s (a deletion, a substitution or an
\* insertion of a character of alphabet), and s itself.
OneEditAway(s, alphabet) ==
    {s}
    \cup {RemoveAt(s, i) : i \in DOMAIN s}
    \cup {[s EXCEPT ![i] = c] : i \in DOMAIN s, c \in alphabet}
    \cup {SubSeq(s, 1, i) \o <<c>> \o SubSeq(s, i + 1, Len(s)) :
             i \in 0..Len(s), c \in alphabet}

\* At most one edit turns a into b.
WithinOneEdit(a, b) ==
    \/ /\ Len(a) = Len(b)
       /\ Cardinality({i \in DOMAIN a : a[i] # b[i]}) <= 1
    \/ /\ Len(a) = Len(b) + 1
       /\ \E i \in DOMAIN a : RemoveAt(a, i) = b
    \/ /\ Len(b) = Len(a) + 1
       /\ \E i \in DOMAIN b : RemoveAt(b, i) = a

\* The Levenshtein distance of a and b is 1 or 2: they differ, and one edit
\* of a (which an optimal pair of edits takes with a character of b) is at
\* most one edit from b.
OneOrTwoEdits(a, b) ==
    /\ a # b
    /\ \E c \in OneEditAway(a, Range(b)) : WithinOneEdit(c, b)

\* The entries of the reference list one or two edits from the word, in the
\* order of the list.
NearCommonWords(lowerWord) ==
    SelectSeq(commonWords, LAMBDA candidate : OneOrTwoEdits(lowerWord, candidate))

\* C30: with the dictionary initialized, a word that is not a custom word and
\* no suggestion of the dictionary's own, getSuggestions returns the first max
\* entries of the reference list, in its order, whose Levenshtein distance to
\* the lowercased word is 1 or 2: never more than max, never one at distance
\* 0 or above 2.
C30_FallbackSuggestions ==
    (/\ applied.fn = "getSuggestions"
     /\ applied.loaded
     /\ applied.word # <<>>
     /\ toLowerCase(applied.word) \notin applied.cw
     /\ applied.native = <<>>) =>
        /\ applied.result =
              FirstOf(NearCommonWords(toLowerCase(applied.word)),
                      applied.maxSuggestions)
        /\ Len(applied.result) <= applied.maxSuggestions
        /\ \A i \in DOMAIN applied.result :
              OneOrTwoEdits(toLowerCase(applied.result[i]) ,
                            toLowerCase(applied.word))

\* C30 witness: "Teh", whose lowercase form is one or two edits from more than
\* two entries of the list, asked with max = 2: the first two are returned.
C30_Witness ==
    /\ applied.fn = "getSuggestions"
    /\ applied.loaded
    /\ applied.word = <<"T","e","h">>
    /\ applied.cw = {}
    /\ applied.native = <<>>
    /\ applied.maxSuggestions = 2
    /\ Len(applied.result) = 2
    /\ Len(NearCommonWords(<<"t","e","h">>)) > 2

\* C39: the list getSimpleSuggestions returns, observed as the result of a
\* getSuggestions that fell back to it (dictionary initialized, the word not
\* a custom word, no suggestion of the dictionary's own), holds no word at
\* two positions, for every word and every maxSuggestions >= 1 asked for.
C39_FallbackHasNoDuplicates ==
    (/\ applied.fn = "getSuggestions"
     /\ applied.loaded
     /\ applied.word # <<>>
     /\ toLowerCase(applied.word) \notin applied.cw
     /\ applied.native = <<>>
     /\ applied.maxSuggestions >= 1) =>
        \A i, j \in DOMAIN applied.result :
           applied.result[i] = applied.result[j] => i = j

\* The offsets start..end that the regions span, ends included: two regions
\* that touch share an offset.
SpannedOffsets(regions) ==
    UNION {regions[i].start .. regions[i].end : i \in DOMAIN regions}

\* The characters [start, end) that the regions cover.
CoveredCharacters(regions) ==
    UNION {regions[i].start .. (regions[i].end - 1) : i \in DOMAIN regions}

\* C40: for regions with start <= end, mergeOverlappingRegions returns a list
\* sorted by start in which every region starts after the end of the one
\* before it (no overlap, no touching), and the output spans the offsets and
\* covers the characters that the input does.
C40_MergedSortedApartSameUnion ==
    applied.fn = "mergeOverlappingRegions" =>
        /\ \A i \in DOMAIN applied.result :
              applied.result[i].start <= applied.result[i].end
        /\ \A i \in 1..(Len(applied.result) - 1) :
              /\ applied.result[i].start <= applied.result[i + 1].start
              /\ applied.result[i + 1].start > applied.result[i].end
        /\ SpannedOffsets(applied.result) = SpannedOffsets(applied.regions)
        /\ CoveredCharacters(applied.result) = CoveredCharacters(applied.regions)

\* C40 witness: three regions given out of order, [3, 4), [0, 1) and [1, 2);
\* the two that touch are merged and the result is [0, 2), [3, 4).
C40_Witness ==
    /\ applied.fn = "mergeOverlappingRegions"
    /\ Len(applied.regions) = 3
    /\ applied.regions[1].start > applied.regions[2].start
    /\ applied.regions[3].start = applied.regions[2].end
    /\ Len(applied.result) = 2
    /\ applied.result[1].start = 0 /\ applied.result[1].end = 2
    /\ applied.result[2].start = 3 /\ applied.result[2].end = 4

(***************************************************************************)
(* The tokens of a text: a worker that has a dictionary receives one       *)
(* CHECK_TEXT, or one CHECK_INCREMENTAL for a text typed into an empty     *)
(* editor.                                                                 *)
(***************************************************************************)
TokenAlphabet == {"a", "1", "'"}

\* The length of the texts of SpecTokens.
MaxTokenTextLen == 4

TokenTexts == UNION {[1..n -> TokenAlphabet] : n \in 1..MaxTokenTextLen}

InitTokens ==
    /\ dictionary = DiffDictionary
    /\ customWords = {}
    /\ checkedCache = <<>>
    /\ regionCache = <<>>
    /\ currentCheckCache = {}
    /\ lastFullText = <<>>
    /\ tasks = {}
    /\ posted = <<>>
    /\ received = 0
    /\ answered = 0
    /\ prev = NoPrev
    /\ handled = NoMessage
    /\ NoInstance
    /\ NoHost
    /\ NoApplication

CheckOnce(fullText) ==
    /\ received = 0
    /\ CheckText(fullText)

TypeOnce(fullText) ==
    /\ received = 0
    /\ HostEdit(<<>>, fullText)

NextTokens ==
    \/ \E fullText \in TokenTexts : CheckOnce(fullText)
    \/ \E fullText \in TokenTexts : TypeOnce(fullText)
    \/ \E t \in tasks : Resume(t)

SpecTokens == InitTokens /\ [][NextTokens]_vars

\* ASCII letters and apostrophes only, at least two characters, at least one
\* letter.
IsWordToken(word) ==
    /\ Len(word) >= 2
    /\ \A i \in DOMAIN word : word[i] \in Letters \cup {"'"}
    /\ \E i \in DOMAIN word : word[i] \in Letters

\* C18: every token looked up (the keys of the word cache) and every token
\* reported (the invalidWords of a CHECK_RESULT) consists of ASCII letters and
\* apostrophes, has at least two characters and at least one letter.
C18_TokensAreWords ==
    /\ \A key \in LRUKeys(checkedCache) : IsWordToken(key)
    /\ \A r \in CheckResults :
          \A i \in DOMAIN r.invalidWords : IsWordToken(r.invalidWords[i].word)

\* What processText reports for fullText on a worker with empty caches.
FullCheck(fullText, dict, cw) ==
    processText(RunState(NewTask(0, "CHECK_TEXT", fullText, <<>>, <<>>, cw, NoPrev),
                         <<>>, <<>>, {}),
                fullText, dict, cw, 0).results

InsideSomeRegion(e, regions) ==
    \E i \in DOMAIN regions : regions[i].start <= e.start /\ e.end <= regions[i].end

\* The entries of results that lie inside one of the regions.
RECURSIVE RestrictedTo(_, _)
RestrictedTo(results, regions) ==
    IF results = <<>> THEN <<>>
    ELSE (IF InsideSomeRegion(Head(results), regions) THEN <<Head(results)>>
          ELSE <<>>)
         \o RestrictedTo(Tail(results), regions)

WordSpans(results) ==
    [i \in DOMAIN results |->
        [word |-> results[i].word, start |-> results[i].start,
         end |-> results[i].end]]

\* C3: after a single edit of a non-empty text, the incremental check of the
\* regions of the edit reports exactly what the full check of the new text
\* reports inside those regions: same words, same document-relative spans.
C3_IncrementalEqualsFull ==
    \A r \in CheckAnswers :
        r.reqType = "CHECK_INCREMENTAL" =>
            WordSpans(r.invalidWords) =
                RestrictedTo(FullCheck(r.fullText, r.dict, r.cw), r.regions)

====
